---- MODULE Spec2Model ----
(***************************************************************************)
(* LED_Voltage_Calculator: the mix-bin combination and Monte Carlo voltage *)
(* pipeline (src/core_functions).  Each stage of the pipeline is a pure    *)
(* batch computation over tabular files; every stage has a specification   *)
(* of its own (SpecInterval, SpecHDI, SpecBins, SpecCombos, SpecNorm,      *)
(* SpecMC, SpecInterp) whose initial states draw the stage's inputs from   *)
(* bounded sets and whose actions are the stage's functions.               *)
(*                                                                         *)
(* Numbers.  Python floats are modelled by exact arithmetic: integers      *)
(* where the data are on a grid, rationals [num, den] (den > 0) where the  *)
(* code divides.  An absent value (Python None) is the empty sequence <<>>,*)
(* a present value v is <<v>>.                                             *)
(* Rounding the program does itself (round(x, 6) in step 4) is computed    *)
(* digit by digit on integers counting 1e-6.                               *)
(***************************************************************************)
EXTENDS Integers, Sequences, FiniteSets

VARIABLES
    pc,            \* position of the stage that is running
    \* ---- step1_rawdata_analysis: category statistics and shortest interval
    numbers,       \* the observation population (list of values)
    target_prob,   \* target probability, a rational in (0, 1]
    stats,         \* List[CategoryStatsEntry]
    interval,      \* (min, median, max, interval_prob) returned
    \* ---- step7_result_curve_plotting: highest density interval
    data,          \* samples of one combination
    statistics,    \* (hdi_min, median, hdi_max) returned
    hdi_alpha,     \* the alpha of a direct call of the interval function
    hdi_result,    \* <<>> or <<(lower, upper)>> returned by that call
    \* ---- step7_result_curve_plotting: process_combos_voltage_results
    step7_dir,     \* combos_<i>_Voltage.csv, by ordinal i: <<>> or <<file>>
    run_total,     \* combinations of the run that has just completed
    voltage_files, \* the ordinals of the files found, sorted
    file_pos,      \* position of the loop over voltage_files
    ranges,        \* Step7_combos_Voltage_ranges.csv: <<>> or <<records>>
    plot_result,   \* <<>> or the (success, message) returned
    \* ---- step3_bin_process: node validation and bin partition (one LED)
    node_vals,     \* the LED's row of step3_bin_nodes.csv
    node_row,      \* the 0-based index of that row in the file
    node_error,    \* the ValueError raised for the row (message "": none)
    df_led,        \* the LED's raw observations (value column), by row
    bin_dfs,       \* 4 DataFrames, each the set of row labels it holds
    unassigned_count,
    \* ---- gui_step4_mixbin / step4_mixbin_calc_1: mix patterns and combos
    entries,       \* LED -> the 6 x 4 table of cells the user filled
    input_files,   \* LED -> rows of step4_mixbin_input_LEDi.csv (<<>>: none)
    combos,        \* rows of step4_mixbin_combos.csv
    \* ---- step4_mixbin_calc_3: group normalisation
    combos_raw,    \* rows read from step4_mixbin_combos.csv
    out_rows,      \* rows written to step4_mixbin_combos_uniformization.csv
    passes,        \* how many times the file has been normalised
    \* ---- step7_final_calculation: Monte Carlo simulation
    combos_file,   \* Step6_mixbin_combos_uniformization_series.csv
    bin_files,     \* slot 1..20 -> LEDi_raw_data_bin_j_interpolated_loss.csv
    simulation_count,
    stop_flag,     \* what stop_check() returns
    combos_data,   \* rows parsed from combos_file
    bin_data_list, \* the 20 populations loaded
    combo_idx,     \* position of the loop over combos_data (1-based)
    sim_idx,       \* position of the trial loop
    mc_out,        \* ordinal -> combos_<ordinal>_Voltage.csv (<<>>: no file)
    progress,      \* the calls of progress_callback: <<current, total>>
    mc_result,     \* <<>> or the (success, message) returned
    trials_after_stop, \* trials simulated since stop_check() first was true
    rng_calls,     \* calls made so far on the generator of the random module
    finished,      \* <<>> or the (success, message) the thread has emitted
    shown,         \* what calculation_finished has shown: log line and box
    \* ---- step5_interpolation_1: linear interpolation
    x_data,
    y_data,
    x_target,
    y_result,      \* <<>> or the value returned / exception raised
    \* ---- step5_interpolation_1: calculate_multipliers
    interpolation_file,  \* step5_interpolation.csv
    current_file,        \* step5_current.csv (usage currents)
    step2_currents_file, \* step2_currents.csv (test currents)
    multiplier_file,     \* step5_multiplier.csv: <<>> or <<the row written>>
    mult_result,         \* <<>> or the (success, message) returned
    \* ---- step1_rawdata_analysis_2: _collect_with_sampling
    row_iter,      \* the rows the iterator yields, in order
    max_points,
    data_numeric,
    reservoir,
    total_count,   \* the local "total"
    using_reservoir,
    row_pos,       \* position of the loop over row_iter (1-based)
    val_pos,       \* position of the loop over the row's values
    collected      \* <<>> or <<the list returned>>

intervalVars == <<numbers, target_prob, stats, interval>>
plotVars     == <<step7_dir, run_total, voltage_files, file_pos, ranges,
                  plot_result>>
hdiVars      == <<data, statistics, hdi_alpha, hdi_result, plotVars>>
binVars      == <<node_vals, node_row, node_error, df_led, bin_dfs,
                  unassigned_count>>
comboVars    == <<entries, input_files, combos>>
normVars     == <<combos_raw, out_rows, passes>>
mcVars       == <<combos_file, bin_files, simulation_count, stop_flag,
                  combos_data, bin_data_list, combo_idx, sim_idx, mc_out,
                  progress, mc_result, trials_after_stop, rng_calls, finished,
                  shown>>
interpVars   == <<x_data, y_data, x_target, y_result>>
multVars     == <<interpolation_file, current_file, step2_currents_file,
                  multiplier_file, mult_result>>
sampVars     == <<row_iter, max_points, data_numeric, reservoir, total_count,
                  using_reservoir, row_pos, val_pos, collected>>
vars         == <<pc, intervalVars, hdiVars, binVars, comboVars, normVars,
                  mcVars, interpVars, multVars, sampVars>>

(***************************************************************************)
(* Bounds of the model.                                                    *)
(***************************************************************************)
MaxPop    == 4    \* observations in a population (step 1)
MaxVal    == 4    \* observed values are 1..MaxVal (step 1)
TargetDen == 4    \* targets are k/TargetDen, k in 1..TargetDen, and 0.97
MaxN      == 4    \* samples of one combination (HDI)
MaxSample == 3    \* sample values are 0..MaxSample (HDI)
MaxNode   == 4    \* node values are 0..MaxNode, in units of 1e-10 (step 3)
MaxDf     == 2    \* rows of a LED's raw data (step 3)
MaxWeight == 4    \* mix quantities are 0..MaxWeight (and 125, -1, -2), step 4 calc 3
MaxPasses == 2    \* times a file is normalised again (step 4 calc 3)
WScale    == 2    \* weights are multiples of 1 / WScale (step 7)
MaxW      == 3    \* weights are -1/WScale .. MaxW/WScale (step 7)
MaxVolt   == 2    \* population values are 0..MaxVolt (step 7)
MaxSim    == 2    \* simulation_count is 0..MaxSim (step 7)
MaxRows   == 2    \* rows parsed from the combos file (step 7)
MaxPts    == 3    \* data points given to linear_interpolation (step 5)
MaxX      == 2    \* x values and targets are 0..MaxX (step 5)
MaxCurrent == 3   \* usage and test currents are 0..MaxCurrent (step 5)
MaxStreamRows == 3 \* rows of the stream (_collect_with_sampling)
MaxRowLen == 2    \* scalars in a row of the stream
MaxCap    == 2    \* max_points is 0..MaxCap
MaxOrd    == 3    \* ordinals of the sample files in the directory
MaxFill   == 1    \* a mix table is filled in its first 0..MaxFill rows, in
                  \* rows 1 and 3, in its last row only, or in all its rows

(***************************************************************************)
(* Helpers: rationals, sums, sorting.                                      *)
(***************************************************************************)
Rat(n, d)  == [num |-> n, den |-> d]
RAdd(a, b) == Rat(a.num * b.den + b.num * a.den, a.den * b.den)
RLeq(a, b) == a.num * b.den <= b.num * a.den
RLt(a, b)  == a.num * b.den < b.num * a.den
REq(a, b)  == a.num * b.den = b.num * a.den
\* the whole instead of the half
RWhole(a)  == a
\* "0.5 * interval_prob"
RHalf(a)   == Rat(a.num, 2 * a.den)
RZero      == Rat(0, 1)

RECURSIVE RSum(_, _, _)
\* sum(props[i..j]) for a sequence of rationals (0 when i > j)
RSum(props, i, j) ==
    IF i > j THEN RZero ELSE RAdd(RSum(props, i, j - 1), props[j])

SetMin(S) == CHOOSE x \in S : \A y \in S : x <= y

RECURSIVE SortSet(_)
\* the elements of a finite set of integers, ascending
SortSet(S) ==
    IF S = {} THEN <<>> ELSE <<SetMin(S)>> \o SortSet(S \ {SetMin(S)})

RECURSIVE Insert(_, _)
Insert(x, s) ==
    IF s = <<>> THEN <<x>>
    ELSE IF x < Head(s) THEN <<x>> \o s
    ELSE <<Head(s)>> \o Insert(x, Tail(s))

RECURSIVE SortSeq(_)
\* a sequence of integers sorted ascending (np.sort)
SortSeq(s) == IF s = <<>> THEN <<>> ELSE Insert(Head(s), SortSeq(Tail(s)))

SeqsUpTo(S, n) == UNION {[1..k -> S] : k \in 0..n}

(***************************************************************************)
(* step1_rawdata_analysis.py                                               *)
(***************************************************************************)
\* the dict "counts" as the sequence of its [value, count] items, in
\* insertion order
HasKey(counts, v) == \E k \in 1..Len(counts) : counts[k].value = v

\* every occurrence is entered as a new key
BumpAsNew(counts, v) == Append(counts, [value |-> v, count |-> 1])

\* "counts[v] = counts.get(v, 0) + 1"
Bump(counts, v) ==
    IF HasKey(counts, v)
    THEN [k \in 1..Len(counts) |->
            IF counts[k].value = v
            THEN [value |-> v, count |-> counts[k].count + 1]
            ELSE counts[k]]
    ELSE Append(counts, [value |-> v, count |-> 1])

RECURSIVE CountAll(_, _)
\* "for v in numbers: counts[v] = counts.get(v, 0) + 1"
CountAll(nums, counts) ==
    IF nums = <<>> THEN counts
    ELSE CountAll(Tail(nums), Bump(counts, Head(nums)))

RECURSIVE InsertEntry(_, _)
InsertEntry(e, s) ==
    IF s = <<>> THEN <<e>>
    ELSE IF e.value < Head(s).value THEN <<e>> \o s
    ELSE <<Head(s)>> \o InsertEntry(e, Tail(s))

RECURSIVE SortEntries(_)
\* "entries.sort(key=lambda e: e.value)" (stable)
SortEntries(s) ==
    IF s = <<>> THEN <<>>
    ELSE InsertEntry(s[Len(s)], SortEntries(SubSeq(s, 1, Len(s) - 1)))

calculate_counts_and_proportions(nums) ==
    LET total  == Len(nums)
        counts == CountAll(nums, <<>>)
    IN  IF total = 0 THEN <<>>
        ELSE SortEntries([k \in 1..Len(counts) |->
                [value      |-> counts[k].value,
                 count      |-> counts[k].count,
                 proportion |-> Rat(counts[k].count, total)]])

\* "cum + 1e-12 >= target_prob".  cum and target are exact rationals whose
\* denominators are at most MaxPop+1 and 100, so two of them that differ
\* differ by far more than 1e-12: the tolerance only absorbs float rounding.
ReachesTarget(cum, target) == RLeq(target, cum)

RECURSIVE FirstReach(_, _, _, _, _)
\* inner loop: the first j >= i at which the running sum reaches the target
\* (0 when the loop ends without a break)
FirstReach(props, target, j, cum, n) ==
    IF j > n THEN 0
    ELSE IF ReachesTarget(RAdd(cum, props[j]), target) THEN j
    ELSE FirstReach(props, target, j + 1, RAdd(cum, props[j]), n)

\* a wrong comparison: a later candidate replaces the best when it is wider
BetterSpanWider(span, best) ==
    best.best_span = <<>> \/ span > best.best_span[1]

\* a wrong comparison: a later candidate of the same span replaces the best
BetterSpanOrEqual(span, best) ==
    best.best_span = <<>> \/ span <= best.best_span[1]

\* "if best_span is None or span < best_span"
BetterSpan(span, best) == best.best_span = <<>> \/ span < best.best_span[1]

RECURSIVE Sweep(_, _, _, _, _)
\* outer loop over the left index i, carrying (best_i, best_j, best_span)
Sweep(values, props, target, i, best) ==
    LET n == Len(values)
        j == FirstReach(props, target, i, RZero, n)
    IN  IF i > n THEN best
        ELSE IF j # 0 /\ BetterSpan(values[j] - values[i], best)
             THEN Sweep(values, props, target, i + 1,
                        [best_i |-> i, best_j |-> j,
                         best_span |-> <<values[j] - values[i]>>])
             ELSE Sweep(values, props, target, i + 1, best)

RECURSIVE MedianIndex(_, _, _, _, _)
\* "for k in range(best_i, best_j + 1): cum += props[k]; if cum >= half"
\* returns the index k of the break, or 0 when the loop ends without one
MedianIndex(props, half, k, cum, last) ==
    IF k > last THEN 0
    ELSE IF RLeq(half, RAdd(cum, props[k])) THEN k
    ELSE MedianIndex(props, half, k + 1, RAdd(cum, props[k]), last)

find_shortest_interval_covering_prob(st, target) ==
    LET n      == Len(st)
        values == [k \in 1..n |-> st[k].value]
        props  == [k \in 1..n |-> st[k].proportion]
        best   == Sweep(values, props, target, 1,
                        [best_i |-> 1, best_j |-> n, best_span |-> <<>>])
        iprob  == RSum(props, best.best_i, best.best_j)
        m      == MedianIndex(props, RHalf(iprob), best.best_i, RZero,
                              best.best_j)
    IN  IF n = 0
        THEN [min_val |-> <<>>, median_val |-> <<>>, max_val |-> <<>>,
              interval_prob |-> RZero]
        ELSE [min_val       |-> <<values[best.best_i]>>,
              median_val    |-> IF m = 0 THEN <<values[best.best_i]>>
                                ELSE <<values[m]>>,
              max_val       |-> <<values[best.best_j]>>,
              interval_prob |-> iprob]

Targets == {Rat(k, TargetDen) : k \in 1..TargetDen} \cup {Rat(97, 100)}

NoInterval == <<>>

IdleInterval ==
    /\ numbers = <<>>
    /\ target_prob = RZero
    /\ stats = <<>>
    /\ interval = NoInterval

IdlePlot ==
    /\ step7_dir = <<>>
    /\ run_total = 0
    /\ voltage_files = <<>>
    /\ file_pos = 0
    /\ ranges = <<>>
    /\ plot_result = <<>>
IdleHDI ==
    /\ IdlePlot
    /\ data = <<>>
    /\ statistics = <<>>
    /\ hdi_alpha = RZero
    /\ hdi_result = <<>>

NoError == [message |-> "", row |-> 0]
IdleBins ==
    /\ node_vals = <<>>
    /\ node_row = 0
    /\ node_error = NoError
    /\ df_led = <<>>
    /\ bin_dfs = <<>>
    /\ unassigned_count = 0

IdleCombos ==
    /\ entries = <<>>
    /\ input_files = <<>>
    /\ combos = <<>>

IdleNorm ==
    /\ combos_raw = <<>>
    /\ out_rows = <<>>
    /\ passes = 0
NothingShown == [log |-> "", box |-> ""]

IdleMC ==
    /\ combos_file = <<>>
    /\ bin_files = <<>>
    /\ simulation_count = 0
    /\ stop_flag = FALSE
    /\ combos_data = <<>>
    /\ bin_data_list = <<>>
    /\ combo_idx = 0
    /\ sim_idx = 0
    /\ mc_out = <<>>
    /\ progress = <<>>
    /\ mc_result = <<>>
    /\ trials_after_stop = 0
    /\ rng_calls = 0
    /\ finished = <<>>
    /\ shown = NothingShown
IdleInterp ==
    /\ x_data = <<>>
    /\ y_data = <<>>
    /\ x_target = 0
    /\ y_result = <<>>
IdleMult ==
    /\ interpolation_file = <<>>
    /\ current_file = <<>>
    /\ step2_currents_file = <<>>
    /\ multiplier_file = <<>>
    /\ mult_result = <<>>
IdleSamp ==
    /\ row_iter = <<>>
    /\ max_points = 0
    /\ data_numeric = <<>>
    /\ reservoir = <<>>
    /\ total_count = 0
    /\ using_reservoir = FALSE
    /\ row_pos = 0
    /\ val_pos = 0
    /\ collected = <<>>

InitInterval ==
    /\ pc = "raw"
    /\ numbers \in SeqsUpTo(1..MaxVal, MaxPop)
    /\ target_prob \in Targets
    /\ stats = <<>>
    /\ interval = NoInterval
    /\ IdleHDI
    /\ IdleBins
    /\ IdleCombos
    /\ IdleNorm
    /\ IdleMC
    /\ IdleInterp
    /\ IdleMult
    /\ IdleSamp

\* process_raw_excel, first half: the category statistics table
Categorize ==
    /\ pc = "raw"
    /\ stats' = calculate_counts_and_proportions(numbers)
    /\ pc' = "stats"
    /\ UNCHANGED <<numbers, target_prob, interval, hdiVars, binVars, comboVars, normVars,
                 mcVars, interpVars, multVars, sampVars>>

\* process_raw_excel, second half: the shortest covering interval
FindInterval ==
    /\ pc = "stats"
    /\ interval' = find_shortest_interval_covering_prob(stats, target_prob)
    /\ pc' = "interval"
    /\ UNCHANGED <<numbers, target_prob, stats, hdiVars, binVars, comboVars, normVars,
                 mcVars, interpVars, multVars, sampVars>>

NextInterval == Categorize \/ FindInterval

SpecInterval == InitInterval /\ [][NextInterval]_vars

(***************************************************************************)
(* step7_result_curve_plotting.py: the highest density interval            *)
(***************************************************************************)
\* alpha of the 4-sigma interval: 1 - 0.999937 = 0.000063
FourSigmaAlpha == Rat(63, 1000000)

\* "int(np.floor((1 - alpha) * n))"
HdiSize(alpha, n) == ((alpha.den - alpha.num) * n) \div alpha.den

\* a wrong comparison: a later window of the same span replaces the best
NarrowerOrEqual(current_range, best) ==
    best.min_range = <<>> \/ current_range <= best.min_range[1]

\* "if current_range < min_range" (min_range starts as float('inf'))
Narrower(current_range, best) ==
    best.min_range = <<>> \/ current_range < best.min_range[1]

RECURSIVE HdiScan(_, _, _, _)
\* "for i in range(n - hdi_size + 1)", carrying (min_range, hdi_min, hdi_max);
\* min_range = <<>> stands for float('inf')
HdiScan(sorted_data, hdi_size, i, best) ==
    LET n             == Len(sorted_data)
        current_range == sorted_data[i + hdi_size - 1] - sorted_data[i]
    IN  IF i > n - hdi_size + 1 THEN best
        ELSE IF Narrower(current_range, best)
             THEN HdiScan(sorted_data, hdi_size, i + 1,
                          [min_range |-> <<current_range>>,
                           hdi_min   |-> sorted_data[i],
                           hdi_max   |-> sorted_data[i + hdi_size - 1]])
             ELSE HdiScan(sorted_data, hdi_size, i + 1, best)

calculate_highest_density_interval(d, alpha) ==
    LET sorted_data == SortSeq(d)
        n           == Len(d)
        hdi_size    == HdiSize(alpha, n)
        best        == HdiScan(sorted_data, hdi_size, 1,
                               [min_range |-> <<>>,
                                hdi_min   |-> sorted_data[1],
                                hdi_max   |-> sorted_data[n]])
    IN  IF n = 0 THEN <<0, 0>>
        ELSE IF hdi_size <= 0 THEN <<sorted_data[1], sorted_data[n]>>
        ELSE <<best.hdi_min, best.hdi_max>>

\* np.median: the middle element, or the mean of the two middle elements
Median(d) ==
    LET s == SortSeq(d)
        n == Len(d)
    IN  IF n % 2 = 1 THEN Rat(s[(n + 1) \div 2], 1)
        ELSE Rat(s[n \div 2] + s[n \div 2 + 1], 2)

calculate_statistics(d) ==
    LET hdi == calculate_highest_density_interval(d, FourSigmaAlpha)
    IN  IF Len(d) = 0
        THEN [hdi_min |-> 0, median |-> RZero, hdi_max |-> 0]
        ELSE [hdi_min |-> hdi[1], median |-> Median(d), hdi_max |-> hdi[2]]

Alphas == {Rat(k, TargetDen) : k \in 1..TargetDen} \cup {FourSigmaAlpha}

InitHDI ==
    /\ pc = "samples"
    /\ data \in SeqsUpTo(0..MaxSample, MaxN)
    /\ statistics = <<>>
    /\ hdi_alpha \in Alphas
    /\ hdi_result = <<>>
    /\ IdlePlot
    /\ IdleInterval
    /\ IdleBins
    /\ IdleCombos
    /\ IdleNorm
    /\ IdleMC
    /\ IdleInterp
    /\ IdleMult
    /\ IdleSamp

\* process_combos_voltage_results, per combination: the summary record
CalculateStatistics ==
    /\ pc = "samples"
    /\ statistics' = calculate_statistics(data)
    /\ pc' = "summary"
    /\ UNCHANGED <<data, hdi_alpha, hdi_result, plotVars, intervalVars, binVars, comboVars, normVars,
                 mcVars, interpVars, multVars, sampVars>>

\* the record is written to Step7_combos_Voltage_ranges.csv
WriteSummary ==
    /\ pc = "summary"
    /\ pc' = "written"
    /\ UNCHANGED <<data, statistics, hdi_alpha, hdi_result, plotVars, intervalVars, binVars, comboVars, normVars,
                 mcVars, interpVars, multVars, sampVars>>

\* a direct call calculate_highest_density_interval(data, alpha)
CalculateHDI ==
    /\ pc = "samples"
    /\ hdi_result' = <<calculate_highest_density_interval(data, hdi_alpha)>>
    /\ pc' = "hdi"
    /\ UNCHANGED <<data, statistics, hdi_alpha, plotVars, intervalVars, binVars,
                   comboVars, normVars, mcVars, interpVars, multVars, sampVars>>

NextHDI == CalculateStatistics \/ WriteSummary \/ CalculateHDI

SpecHDI == InitHDI /\ [][NextHDI]_vars

(***************************************************************************)
(* step3_bin_process.py: node validation and partition into 4 bins.        *)
(* Voltages and nodes are integers in units of 1e-10, the comparison       *)
(* tolerance of _cut_into_bins.                                            *)
(***************************************************************************)
LED_COUNT == 5
BIN_COUNT == 4
Tolerance == 1

\* _validate_node_row: NoError when the row is accepted, else the error
\* raised, whose message names the row as row_idx + 1
NodeError(message, row_idx) == [message |-> message, row |-> row_idx + 1]

NonZeroIndices(nv) == {i \in 1..Len(nv) : nv[i] # 0}

SetMax(S) == CHOOSE x \in S : \A y \in S : y <= x

\* a wrong order test: equal neighbours are let through
validate_node_row_weak(nv, row_idx) ==
    LET nz            == NonZeroIndices(nv)
        non_zero_vals == [k \in 1..Cardinality(nz) |-> nv[SortSet(nz)[k]]]
    IN  IF Len(nv) # 5 THEN NodeError("node count must be 5", row_idx)
        ELSE IF nz = {} THEN NoError
        ELSE IF \E i \in SetMin(nz)..SetMax(nz) : nv[i] = 0
             THEN NodeError("zero between non-zero nodes", row_idx)
        ELSE IF Len(non_zero_vals) > 1
                /\ ~ \A j \in 1..(Len(non_zero_vals) - 1) :
                        non_zero_vals[j] <= non_zero_vals[j + 1]
             THEN NodeError("non-zero nodes must be strictly increasing",
                            row_idx)
        ELSE NoError

validate_node_row(nv, row_idx) ==
    LET nz            == NonZeroIndices(nv)
        non_zero_vals == [k \in 1..Cardinality(nz) |-> nv[SortSet(nz)[k]]]
    IN  IF Len(nv) # 5 THEN NodeError("node count must be 5", row_idx)
        ELSE IF nz = {} THEN NoError
        ELSE IF \E i \in SetMin(nz)..SetMax(nz) : nv[i] = 0
             THEN NodeError("zero between non-zero nodes", row_idx)
        ELSE IF Len(non_zero_vals) > 1
                /\ ~ \A j \in 1..(Len(non_zero_vals) - 1) :
                        non_zero_vals[j] < non_zero_vals[j + 1]
             THEN NodeError("non-zero nodes must be strictly increasing",
                            row_idx)
        ELSE NoError

\* _load_nodes for the file row at index row_idx (the other rows are valid):
\* fewer than 5 columns is a format error of the file, columns after the
\* fifth are dropped, and the row is validated
load_nodes_row(cells, row_idx) ==
    IF Len(cells) < 5 THEN [message |-> "file must be 5 rows x 5 columns",
                            row |-> 0]
    ELSE validate_node_row(SubSeq(cells, 1, 5), row_idx)

\* _get_valid_intervals: the bin indices whose two nodes are non-zero and
\* strictly increasing
get_valid_intervals(nv) ==
    {i \in 1..4 : ~(nv[i] = 0 \/ nv[i + 1] = 0) /\ ~(nv[i] >= nv[i + 1])}

\* "a > b - tolerance" and "a <= b + tolerance"
is_gt(a, b) == a > b - Tolerance
is_le(a, b) == a <= b + Tolerance

\* mask = is_gt(s, lower) & is_le(s, upper): the rows of df selected
BinMask(df, lower, upper) ==
    {r \in 1..Len(df) : is_gt(df[r], lower) /\ is_le(df[r], upper)}

\* _cut_into_bins: the 4 DataFrames (bins not in a valid interval stay empty)
cut_into_bins(df, nv) ==
    [b \in 1..BIN_COUNT |->
        IF b \in get_valid_intervals(nv)
        THEN BinMask(df, nv[b], nv[b + 1])
        ELSE {}]

\* "unassigned_count = len(df) - assigned_mask.sum()"
UnassignedCount(df, nv) ==
    Len(df) - Cardinality(UNION {BinMask(df, nv[b], nv[b + 1]) :
                                   b \in get_valid_intervals(nv)})

RawValues == 0..(MaxNode + 2)

\* a row of step3_bin_nodes.csv: 5 cells, or 4 or 6 cells
NodeRows ==
    [1..5 -> 0..MaxNode]
    \cup {<<a, b, c, e>> : a, b \in {0, 1}, c, e \in {0, 2}}
    \cup {<<a, b, c, 3, 4, e>> : a, b \in {0, 1}, c \in {0, 2}, e \in {0, 4}}

InitBins ==
    /\ pc = "nodes"
    /\ node_vals \in NodeRows
    /\ node_row \in 0..(LED_COUNT - 1)
    /\ node_error = NoError
    /\ df_led = <<>>
    /\ bin_dfs = <<>>
    /\ unassigned_count = 0
    /\ IdleInterval
    /\ IdleHDI
    /\ IdleCombos
    /\ IdleNorm
    /\ IdleMC
    /\ IdleInterp
    /\ IdleMult
    /\ IdleSamp

\* _validate_node_row(node_vals, row_idx), called on the row as it is
ValidateNodeRow ==
    /\ pc = "nodes"
    /\ node_error' = validate_node_row(node_vals, node_row)
    /\ pc' = "validated"
    /\ UNCHANGED <<node_vals, node_row, df_led, bin_dfs, unassigned_count,
                   intervalVars, hdiVars, comboVars, normVars,
                   mcVars, interpVars, multVars, sampVars>>

\* _load_nodes: the row is validated; an invalid row raises and no node
\* set is returned
LoadNodes ==
    /\ pc = "nodes"
    /\ node_error' = load_nodes_row(node_vals, node_row)
    /\ IF node_error'.message = ""
       THEN /\ node_vals' = SubSeq(node_vals, 1, 5)
            /\ pc' = "loaded"
       ELSE /\ node_vals' = node_vals
            /\ pc' = "error"
    /\ UNCHANGED <<node_row, df_led, bin_dfs, unassigned_count,
                   intervalVars, hdiVars, comboVars, normVars,
                 mcVars, interpVars, multVars, sampVars>>

\* run_step3_bin_process 2.1: the LED's raw data is read
ReadLedRaw ==
    /\ pc = "loaded"
    /\ df_led' \in SeqsUpTo(RawValues, MaxDf)
    /\ pc' = "raw_read"
    /\ UNCHANGED <<node_vals, node_row, node_error, bin_dfs, unassigned_count,
                   intervalVars, hdiVars, comboVars, normVars,
                 mcVars, interpVars, multVars, sampVars>>

\* run_step3_bin_process, "df_led.shape[0] == 0": four empty bin files
EmptyRaw ==
    /\ pc = "raw_read"
    /\ Len(df_led) = 0
    /\ bin_dfs' = [b \in 1..BIN_COUNT |-> {}]
    /\ pc' = "bins_written"
    /\ UNCHANGED <<node_vals, node_row, node_error, df_led, unassigned_count,
                   intervalVars, hdiVars, comboVars, normVars,
                 mcVars, interpVars, multVars, sampVars>>

\* run_step3_bin_process 2.4 and 2.5: the rows are cut into bins and written
CutIntoBins ==
    /\ pc = "raw_read"
    /\ Len(df_led) # 0
    /\ bin_dfs' = cut_into_bins(df_led, node_vals)
    /\ unassigned_count' = UnassignedCount(df_led, node_vals)
    /\ pc' = "bins_written"
    /\ UNCHANGED <<node_vals, node_row, node_error, df_led, intervalVars, hdiVars,
                   comboVars, normVars,
                 mcVars, interpVars, multVars, sampVars>>

NextBins ==
    ValidateNodeRow \/ LoadNodes \/ ReadLedRaw \/ EmptyRaw \/ CutIntoBins

SpecBins == InitBins /\ [][NextBins]_vars

(***************************************************************************)
(* gui_step4_mixbin.py (on_write, _export_mix_csv) and                     *)
(* step4_mixbin_calc_1.py (build_mixbin_combos).                           *)
(* A cell of the GUI table is <<>> (left blank) or <<v>> (the number v).   *)
(***************************************************************************)
GUI_ROWS  == 6
READ_ROWS == 5

LEDs == 1..LED_COUNT

\* the row a user fills for mix pattern r of LED led, and a row left blank
FilledRow(led, r) == << <<r>>, <<led>>, <<>>, <<0>> >>
BlankRow          == << <<>>, <<>>, <<>>, <<>> >>

FillSets ==
    {1..q : q \in 0..MaxFill} \cup {{1, 3}, {GUI_ROWS}, 1..GUI_ROWS}

Table(led, filled) ==
    [r \in 1..GUI_ROWS |-> IF r \in filled THEN FilledRow(led, r) ELSE BlankRow]

\* on_write: "if txt == '': row_data.append(0) else: float(txt)"
CellValue(cell) == IF cell = <<>> THEN 0 ELSE cell[1]

mix_matrix(table) ==
    [r \in 1..Len(table) |-> [c \in 1..4 |-> CellValue(table[r][c])]]

has_input(ent) ==
    \E led \in LEDs : \E r \in 1..GUI_ROWS : \E c \in 1..4 :
        ent[led][r][c] # <<>>

\* _read_first5_rows_4cols: "if i >= 5: break" (every row has 4 values here)
read_first5_rows_4cols(file) ==
    [i \in 1..(IF Len(file) < READ_ROWS THEN Len(file) ELSE READ_ROWS) |->
        file[i]]

is_all_zero(first4) == \A k \in 1..Len(first4) : first4[k] = 0

IsCandidate(r) == ~ is_all_zero(r)

\* _collect_candidates
collect_candidates(file) ==
    SelectSeq(read_first5_rows_4cols(file), IsCandidate)

\* "if not cands: cands = [[0.0, 0.0, 0.0, 0.0]]"
CandidatesOrPlaceholder(file) ==
    IF collect_candidates(file) = <<>> THEN << <<0, 0, 0, 0>> >>
    ELSE collect_candidates(file)

RECURSIVE Product(_, _)
\* itertools.product(*all_candidates[k..]) with each tuple's blocks merged:
\* the rightmost list advances fastest
Product(all_candidates, k) ==
    LET rest  == Product(all_candidates, k + 1)
        cands == all_candidates[k]
        n     == Len(rest)
    IN  IF k > Len(all_candidates) THEN << <<>> >>
        ELSE [idx \in 1..(Len(cands) * n) |->
                cands[((idx - 1) \div n) + 1] \o rest[((idx - 1) % n) + 1]]

build_mixbin_combos(files) ==
    Product([led \in LEDs |-> CandidatesOrPlaceholder(files[led])], 1)

InitCombos ==
    /\ pc = "table"
    /\ entries \in {[led \in LEDs |-> Table(led, fs[led])] :
                        fs \in [LEDs -> FillSets]}
    /\ input_files = <<>>
    /\ combos = <<>>
    /\ IdleInterval
    /\ IdleHDI
    /\ IdleBins
    /\ IdleNorm
    /\ IdleMC
    /\ IdleInterp
    /\ IdleMult
    /\ IdleSamp

\* on_write + _export_mix_csv: the five 6 x 4 CSV files are written
OnWrite ==
    /\ pc = "table"
    /\ has_input(entries) = TRUE
    /\ input_files' = [led \in LEDs |-> mix_matrix(entries[led])]
    /\ pc' = "exported"
    /\ UNCHANGED <<entries, combos, intervalVars, hdiVars, binVars, normVars,
                 mcVars, interpVars, multVars, sampVars>>

\* on_write: "if not has_input: ... return"
OnWriteNoInput ==
    /\ pc = "table"
    /\ ~ has_input(entries)
    /\ pc' = "no_input"
    /\ UNCHANGED <<comboVars, intervalVars, hdiVars, binVars, normVars,
                 mcVars, interpVars, multVars, sampVars>>

\* on_generate_combos -> build_mixbin_combos
BuildMixbinCombos ==
    /\ pc = "exported"
    /\ combos' = build_mixbin_combos(input_files)
    /\ pc' = "combos"
    /\ UNCHANGED <<entries, input_files, intervalVars, hdiVars, binVars, normVars,
                 mcVars, interpVars, multVars, sampVars>>

NextCombos == OnWrite \/ OnWriteNoInput \/ BuildMixbinCombos

SpecCombos == InitCombos /\ [][NextCombos]_vars

(***************************************************************************)
(* step4_mixbin_calc_3.py: build_mixbin_percentages.                       *)
(* A value of a CSV file is an integer count of 1e-6 (the files hold       *)
(* decimals of at most 6 places: _fmt rounds to 6 places).                 *)
(***************************************************************************)
GROUP_SIZE == 4
NUM_GROUPS == 5
TOTAL_COLS == 20
Micro      == 1000000

RECURSIVE SumSeq(_)
SumSeq(q) == IF q = <<>> THEN 0 ELSE Head(q) + SumSeq(Tail(q))

RECURSIVE LongDiv(_, _, _, _)
\* k more decimal digits of rem / d after the quotient acc: <<quotient, rem>>
LongDiv(rem, d, k, acc) ==
    IF k = 0 THEN <<acc, rem>>
    ELSE LongDiv((rem * 10) % d, d, k - 1, acc * 10 + (rem * 10) \div d)

\* a wrong rounding: the quotient cut after 6 decimals
CutQuotient(v, s) == LongDiv(v % s, s, 6, v \div s)[1]

\* round(v / s, 6) for v >= 0, s > 0, as a count of 1e-6: the nearest
\* 6-place decimal, an exact tie going to the even one.
RoundQuotient(v, s) ==
    LET qr == LongDiv(v % s, s, 6, v \div s)
    IN  IF 2 * qr[2] > s THEN qr[1] + 1
        ELSE IF 2 * qr[2] < s THEN qr[1]
        ELSE IF qr[1] % 2 = 0 THEN qr[1] ELSE qr[1] + 1

\* _fmt(v / s) for s > 0; round() is symmetric about 0, and -0.0 prints "0"
FmtQuotient(v, s) ==
    IF v < 0 THEN 0 - RoundQuotient(0 - v, s) ELSE RoundQuotient(v, s)

\* "row[:TOTAL_COLS] + ['0'] * max(0, TOTAL_COLS - len(row))"
PadRow(row) ==
    [c \in 1..TOTAL_COLS |-> IF c <= Len(row) THEN row[c] ELSE 0]

\* a wrong divisor: the sum of the whole row
GroupSumOfRow(vals, g) == SumSeq(vals)

\* the group sum the divisor is taken from
GroupSum(vals, g) ==
    SumSeq(SubSeq(vals, (g - 1) * GROUP_SIZE + 1, g * GROUP_SIZE))

\* one row: each group of 4 divided by its own sum, or zeroed
NormalizeRow(row) ==
    LET vals == PadRow(row)
    IN  [c \in 1..TOTAL_COLS |->
            LET g == ((c - 1) \div GROUP_SIZE) + 1
                s == GroupSum(vals, g)
            IN  IF s > 0 THEN FmtQuotient(vals[c], s) ELSE 0]

build_mixbin_percentages(rows) ==
    [i \in 1..Len(rows) |-> NormalizeRow(rows[i])]

\* the inputs: quantities 0..MaxWeight and 125, written as decimals
Quantities == (0..MaxWeight) \cup {125} \cup {0 - 1, 0 - 2}
QGroups ==
    {<<a * Micro, b * Micro, c * Micro, e * Micro>> :
        a \in 0..MaxWeight, b \in 0..MaxWeight, c \in 0..MaxWeight,
        e \in Quantities}
ZeroGroup == <<0, 0, 0, 0>>
Reverse4(g) == <<g[4], g[3], g[2], g[1]>>

\* a row built around the group g: alone, padded by the reader ("short"),
\* followed by zero groups ("zeros"), or by other groups ("mixed")
MakeRow(g, shape) ==
    CASE shape = "short" -> g
      [] shape = "zeros" -> g \o ZeroGroup \o ZeroGroup \o ZeroGroup \o ZeroGroup
      [] shape = "mixed" -> Reverse4(g) \o ZeroGroup \o g
                              \o <<Micro, 0, 0, 0>> \o <<Micro, 2 * Micro, 0, 0>>

InputRows == {MakeRow(g, sh) : g \in QGroups, sh \in {"short", "zeros", "mixed"}}
FixedRow  == MakeRow(<<Micro, Micro, 0, 2 * Micro>>, "mixed")

InitNorm ==
    /\ pc = "combos_file"
    /\ combos_raw \in {<<>>} \cup {<<r>> : r \in InputRows}
                        \cup {<<FixedRow, r>> : r \in InputRows}
    /\ out_rows = <<>>
    /\ passes = 0
    /\ IdleInterval
    /\ IdleHDI
    /\ IdleBins
    /\ IdleCombos
    /\ IdleMC
    /\ IdleInterp
    /\ IdleMult
    /\ IdleSamp

\* build_mixbin_percentages: combos.csv -> combos_uniformization.csv
BuildMixbinPercentages ==
    /\ pc = "combos_file"
    /\ out_rows' = build_mixbin_percentages(combos_raw)
    /\ passes' = passes + 1
    /\ pc' = "normalized"
    /\ UNCHANGED <<combos_raw, intervalVars, hdiVars, binVars, comboVars,
                 mcVars, interpVars, multVars, sampVars>>

\* the normalised file is given to build_mixbin_percentages as its input
Resubmit ==
    /\ pc = "normalized"
    /\ passes < MaxPasses
    /\ combos_raw' = out_rows
    /\ out_rows' = <<>>
    /\ pc' = "combos_file"
    /\ UNCHANGED <<passes, intervalVars, hdiVars, binVars, comboVars,
                 mcVars, interpVars, multVars, sampVars>>

NextNorm == BuildMixbinPercentages \/ Resubmit

SpecNorm == InitNorm /\ [][NextNorm]_vars

(***************************************************************************)
(* step7_final_calculation: Monte Carlo simulation.  Weights (sample       *)
(* counts) are counted in units of 1 / WScale, population values are       *)
(* integers and simulated totals are counted in units of 1 / WScale.  The  *)
(* smallest non-zero fractional part, 1 / WScale, is far above the 1e-10   *)
(* threshold of _sample_from_bin, so "fractional_part > 1e-10" is          *)
(* "fractional_part > 0" here.                                             *)
(***************************************************************************)
SLOT_COUNT == 20       \* led_count * bin_per_led
STOP_POLL  == 1000     \* "sim_idx % 1000 == 0"

\* ---- the files
\* a row of the combos file: its cells as numbers, or a row with a cell
\* float() rejects (text), or an empty line (no cells)
WeightRow(cells) == [text |-> FALSE, cells |-> cells]
BadRow    == [text |-> TRUE, cells |-> <<1, 1>>]
BlankLine == [text |-> FALSE, cells |-> <<>>]

\* a population file: a value is <<v>> (a number) or <<>> (blank or text)
MissingFile      == [exists |-> FALSE, size |-> 0, values |-> <<>>]
EmptyFile        == [exists |-> TRUE, size |-> 0, values |-> <<>>]
DataFile(values) == [exists |-> TRUE, size |-> Len(values), values |-> values]

\* ---- _load_bin_data_memory_efficient
RECURSIVE NumericValues(_)
NumericValues(values) ==
    IF values = <<>> THEN <<>>
    ELSE IF Head(values) = <<>> THEN NumericValues(Tail(values))
    ELSE <<Head(values)[1]>> \o NumericValues(Tail(values))

LoadOneBin(file) ==
    IF file.exists /\ file.size > 0 THEN NumericValues(file.values)
    ELSE <<0>>

load_bin_data_memory_efficient(files) ==
    [k \in 1..SLOT_COUNT |-> LoadOneBin(files[k])]

\* ---- run_monte_carlo_simulation: parsing of the combos file
RECURSIVE ParseCombosLenient(_)
\* a wrong parser: a row float() rejects is kept
ParseCombosLenient(rows) ==
    IF rows = <<>> THEN <<>>
    ELSE IF Head(rows).cells = <<>>
         THEN ParseCombosLenient(Tail(rows))
         ELSE <<Head(rows).cells>> \o ParseCombosLenient(Tail(rows))

RECURSIVE ParseCombos(_)
\* "if row:" skips an empty line, "except ValueError: continue" a text row
ParseCombos(rows) ==
    IF rows = <<>> THEN <<>>
    ELSE IF Head(rows).cells = <<>> \/ Head(rows).text
         THEN ParseCombos(Tail(rows))
         ELSE <<Head(rows).cells>> \o ParseCombos(Tail(rows))

\* ---- _sample_from_bin
\* a wrong integer part: rounding down (floor) instead of towards zero
IntPartFloor(w) == w \div WScale

\* int(sample_count): truncation towards zero
IntPart(w) == IF w >= 0 THEN w \div WScale ELSE 0 - ((0 - w) \div WScale)

\* the sums n draws with replacement can give
RECURSIVE DrawSums(_, _)
DrawSums(vals, n) ==
    IF n <= 0 THEN {0}
    ELSE {a + b : a \in vals, b \in DrawSums(vals, n - 1)}

\* a wrong remainder: the fractional part of the weight is dropped
sample_from_bin_whole(bin_data, sample_count) ==
    IF bin_data = <<>> THEN {0}
    ELSE {WScale * t :
            t \in DrawSums({bin_data[j] : j \in 1..Len(bin_data)},
                           IntPart(sample_count))}

\* the totals _sample_from_bin can return, one per outcome of random.choice
sample_from_bin(bin_data, sample_count) ==
    IF bin_data = <<>> THEN {0}
    ELSE LET vals            == {bin_data[j] : j \in 1..Len(bin_data)}
             integer_part    == IntPart(sample_count)
             fractional_part == sample_count - integer_part * WScale
         IN  IF fractional_part > 0
             THEN {WScale * t + fractional_part * last_sample :
                     t \in DrawSums(vals, integer_part), last_sample \in vals}
             ELSE {WScale * t : t \in DrawSums(vals, integer_part)}

\* the calls of random.choice one call of _sample_from_bin makes
ChoiceCalls(bin_data, sample_count) ==
    IF bin_data = <<>> THEN 0
    ELSE LET integer_part    == IntPart(sample_count)
             fractional_part == sample_count - integer_part * WScale
         IN  (IF integer_part > 0 THEN integer_part ELSE 0)
             + (IF fractional_part > 0 THEN 1 ELSE 0)

RECURSIVE TrialChoiceCalls(_, _, _)
TrialChoiceCalls(combo, bins, k) ==
    IF k = 0 THEN 0
    ELSE TrialChoiceCalls(combo, bins, k - 1) + ChoiceCalls(bins[k], combo[k])

\* the totals one trial can give: slots 1..k of "combo[:20]"
RECURSIVE TrialTotals(_, _, _)
TrialTotals(combo, bins, k) ==
    IF k = 0 THEN {0}
    ELSE {a + b : a \in TrialTotals(combo, bins, k - 1),
                  b \in sample_from_bin(bins[k], combo[k])}

SlotsUsed(combo) == IF Len(combo) < SLOT_COUNT THEN Len(combo) ELSE SLOT_COUNT

\* ---- the inputs of a run
WSet    == (0 - 1)..MaxW
WGroups == {<<a, b, 0, a>> : a \in WSet, b \in {0, 1}}
WFixedGroup == <<WScale, 1, 0, 0>>

\* 20 cells around the group g: g in every channel ("all"), g in channel 1
\* and unconfigured channels after it ("first"), or 24 cells ("long")
WeightCells(g, shape) ==
    CASE shape = "all"   -> g \o g \o g \o g \o g
      [] shape = "first" -> g \o ZeroGroup \o ZeroGroup \o ZeroGroup \o ZeroGroup
      [] shape = "long"  -> g \o g \o g \o g \o g \o <<MaxW, MaxW, MaxW, MaxW>>

WeightRows(shapes) ==
    {WeightRow(WeightCells(g, sh)) : g \in WGroups, sh \in shapes}
FixedWeightRow == WeightRow(WeightCells(WFixedGroup, "all"))

CombosFiles ==
    {[exists |-> FALSE, rows |-> <<>>],
     [exists |-> TRUE, rows |-> <<>>],
     [exists |-> TRUE, rows |-> <<BadRow>>]}
    \cup {[exists |-> TRUE, rows |-> <<r>>] :
             r \in WeightRows({"all", "first", "long"})}
    \cup {[exists |-> TRUE, rows |-> <<FixedWeightRow, BlankLine, r>>] :
             r \in WeightRows({"first"})}
    \cup {[exists |-> TRUE, rows |-> <<BadRow, r>>] :
             r \in WeightRows({"long"})}

ConstFile(c) == DataFile(<<<<c>>, <<c>>>>)

\* the 20 population files: all holding the value c only ("const"), or some
\* of them holding two values, missing, empty or holding text
BinFiles(kind, c) ==
    [k \in 1..SLOT_COUNT |->
        CASE kind = "const"   -> IF k = 1 THEN DataFile(<<<<c>>>>) ELSE ConstFile(c)
          [] kind = "varied"  -> IF k % 2 = 1 THEN DataFile(<<<<c>>, <<c + 1>>>>)
                                 ELSE ConstFile(c)
          [] kind = "missing" -> IF k = 1 THEN MissingFile ELSE ConstFile(c)
          [] kind = "empty"   -> IF k = SLOT_COUNT THEN EmptyFile ELSE ConstFile(c)
          [] kind = "text"    -> IF k = 2 THEN DataFile(<<<<>>>>)
                                 ELSE IF k = 3 THEN DataFile(<<<<>>, <<c>>>>)
                                 ELSE ConstFile(c)]

BinFileSets ==
    {BinFiles("const", c) : c \in 0..MaxVolt}
    \cup {BinFiles("varied", 1)}
    \cup {BinFiles(kind, MaxVolt) : kind \in {"missing", "empty", "text"}}

NoFile == <<>>

InitMC ==
    /\ pc = "mc_start"
    /\ combos_file \in CombosFiles
    /\ bin_files \in BinFileSets
    /\ simulation_count \in 0..MaxSim
    /\ stop_flag = FALSE
    /\ combos_data = <<>>
    /\ bin_data_list = <<>>
    /\ combo_idx = 0
    /\ sim_idx = 0
    /\ mc_out = [i \in 1..MaxRows |-> NoFile]
    /\ progress = <<>>
    /\ mc_result = <<>>
    /\ trials_after_stop = 0
    /\ rng_calls = 0
    /\ finished = <<>>
    /\ shown = NothingShown
    /\ IdleInterval
    /\ IdleHDI
    /\ IdleBins
    /\ IdleCombos
    /\ IdleNorm
    /\ IdleInterp
    /\ IdleMult
    /\ IdleSamp

Returned(success, message) == <<[success |-> success, message |-> message]>>

\* run_monte_carlo_simulation, step 1: the combos file is read and parsed
LoadCombos ==
    /\ pc = "mc_start"
    /\ IF ~combos_file.exists
       THEN /\ mc_result' = Returned(FALSE, "combos file missing")
            /\ pc' = "mc_returned"
            /\ UNCHANGED <<combos_data, progress>>
       ELSE /\ combos_data' = ParseCombos(combos_file.rows)
            /\ IF combos_data' = <<>>
               THEN /\ mc_result' = Returned(FALSE, "combos file empty")
                    /\ pc' = "mc_returned"
                    /\ UNCHANGED progress
               ELSE /\ progress' = Append(progress, <<0, Len(combos_data')>>)
                    /\ pc' = "mc_load_bins"
                    /\ UNCHANGED mc_result
    /\ UNCHANGED <<combos_file, bin_files, simulation_count, stop_flag,
                   bin_data_list, combo_idx, sim_idx, mc_out>>
    /\ UNCHANGED <<trials_after_stop, rng_calls, finished, shown>>
    /\ UNCHANGED <<intervalVars, hdiVars, binVars, comboVars, normVars,
                   interpVars, multVars, sampVars>>

\* step 2: the 20 populations are loaded (the list always has 20 entries)
LoadBins ==
    /\ pc = "mc_load_bins"
    /\ bin_data_list' = load_bin_data_memory_efficient(bin_files)
    /\ combo_idx' = 1
    /\ pc' = "mc_combo"
    /\ UNCHANGED <<combos_file, bin_files, simulation_count, stop_flag,
                   combos_data, sim_idx, mc_out, progress, mc_result>>
    /\ UNCHANGED <<trials_after_stop, rng_calls, finished, shown>>
    /\ UNCHANGED <<intervalVars, hdiVars, binVars, comboVars, normVars,
                   interpVars, multVars, sampVars>>

\* a report of the number of combinations finished so far
ComboReportDone(current, total) == <<current - 1, total>>

\* "progress_callback(combo_idx, total_combos, combo_detail)"
ComboReport(current, total) == <<current, total>>

\* step 3, top of the loop over combos_data: stop_check is polled, progress
\* is reported and combos_<combo_idx>_Voltage.csv is opened for writing
BeginCombo ==
    /\ pc = "mc_combo"
    /\ combo_idx <= Len(combos_data)
    /\ IF stop_flag
       THEN /\ mc_result' = Returned(FALSE, "stopped by user")
            /\ pc' = "mc_returned"
            /\ UNCHANGED <<progress, mc_out, sim_idx>>
       ELSE /\ progress' = Append(progress,
                                   ComboReport(combo_idx, Len(combos_data)))
            /\ mc_out' = [mc_out EXCEPT ![combo_idx] = <<<<>>>>]
            /\ sim_idx' = 0
            /\ pc' = "mc_trial"
            /\ UNCHANGED mc_result
    /\ UNCHANGED <<combos_file, bin_files, simulation_count, stop_flag,
                   combos_data, bin_data_list, combo_idx>>
    /\ UNCHANGED <<trials_after_stop, rng_calls, finished, shown>>
    /\ UNCHANGED <<intervalVars, hdiVars, binVars, comboVars, normVars,
                   interpVars, multVars, sampVars>>

\* a poll that is never due
PollDueNever(idx) == FALSE

\* "sim_idx % 1000 == 0"
PollDue(idx) == idx % STOP_POLL = 0

\* top of a pass of the trial loop: stop_check is polled when sim_idx is a
\* multiple of 1000
PollStop ==
    /\ pc = "mc_trial"
    /\ sim_idx < simulation_count
    /\ IF PollDue(sim_idx) /\ stop_flag
       THEN /\ mc_result' = Returned(FALSE, "stopped by user")
            /\ pc' = "mc_returned"
       ELSE /\ pc' = "mc_sample"
            /\ UNCHANGED mc_result
    /\ UNCHANGED <<combos_file, bin_files, simulation_count, stop_flag,
                   combos_data, bin_data_list, combo_idx, sim_idx, mc_out,
                   progress>>
    /\ UNCHANGED <<trials_after_stop, rng_calls, finished, shown>>
    /\ UNCHANGED <<intervalVars, hdiVars, binVars, comboVars, normVars,
                   interpVars, multVars, sampVars>>

\* rest of the pass: the 20 slots are sampled and the total is written
SimulateTrial ==
    /\ pc = "mc_sample"
    /\ \E total_voltage \in
            TrialTotals(combos_data[combo_idx], bin_data_list,
                        SlotsUsed(combos_data[combo_idx])) :
          mc_out' = [mc_out EXCEPT ![combo_idx] =
                        <<Append(mc_out[combo_idx][1], total_voltage)>>]
    /\ sim_idx' = sim_idx + 1
    /\ trials_after_stop' = IF stop_flag THEN trials_after_stop + 1
                            ELSE trials_after_stop
    /\ rng_calls' = rng_calls + TrialChoiceCalls(combos_data[combo_idx],
                                    bin_data_list,
                                    SlotsUsed(combos_data[combo_idx]))
    /\ pc' = "mc_trial"
    /\ UNCHANGED <<combos_file, bin_files, simulation_count, stop_flag,
                   combos_data, bin_data_list, combo_idx, progress, mc_result>>
    /\ UNCHANGED <<finished, shown>>
    /\ UNCHANGED <<intervalVars, hdiVars, binVars, comboVars, normVars,
                   interpVars, multVars, sampVars>>

\* the trial loop is over: the file is closed and the next combo is taken
EndCombo ==
    /\ pc = "mc_trial"
    /\ sim_idx >= simulation_count
    /\ combo_idx' = combo_idx + 1
    /\ pc' = "mc_combo"
    /\ UNCHANGED <<combos_file, bin_files, simulation_count, stop_flag,
                   combos_data, bin_data_list, sim_idx, mc_out, progress,
                   mc_result>>
    /\ UNCHANGED <<trials_after_stop, rng_calls, finished, shown>>
    /\ UNCHANGED <<intervalVars, hdiVars, binVars, comboVars, normVars,
                   interpVars, multVars, sampVars>>

\* the loop over combos_data is over
FinishRun ==
    /\ pc = "mc_combo"
    /\ combo_idx > Len(combos_data)
    /\ mc_result' = Returned(TRUE, "done")
    /\ pc' = "mc_returned"
    /\ UNCHANGED <<combos_file, bin_files, simulation_count, stop_flag,
                   combos_data, bin_data_list, combo_idx, sim_idx, mc_out,
                   progress>>
    /\ UNCHANGED <<trials_after_stop, rng_calls, finished, shown>>
    /\ UNCHANGED <<intervalVars, hdiVars, binVars, comboVars, normVars,
                   interpVars, multVars, sampVars>>

\* the user asks for the calculation to stop while it runs
RequestStop ==
    /\ pc \in {"mc_start", "mc_load_bins", "mc_combo", "mc_trial",
              "mc_sample", "mc_returned"}
    /\ ~stop_flag
    /\ stop_flag' = TRUE
    /\ UNCHANGED <<pc, combos_file, bin_files, simulation_count, combos_data,
                   bin_data_list, combo_idx, sim_idx, mc_out, progress,
                   mc_result>>
    /\ UNCHANGED <<trials_after_stop, rng_calls, finished, shown>>
    /\ UNCHANGED <<intervalVars, hdiVars, binVars, comboVars, normVars,
                   interpVars, multVars, sampVars>>

\* ---- gui_step7_final_calculation.py
\* calculation_finished(success, message): the log line and the message box
calculation_finished(success, message) ==
    IF success THEN [log |-> "completed", box |-> "information"]
    ELSE [log |-> "failed",
          box |-> IF message = "stopped by user" THEN "" ELSE "critical"]

\* CalculationThread.run after run_monte_carlo_simulation has returned: the
\* result is emitted as it is when the run failed or a stop was requested;
\* otherwise process_combos_voltage_results runs (its outcome success2 is
\* either) and the combined result is emitted.  The slot
\* calculation_finished then shows it.
ThreadFinished ==
    /\ pc = "mc_returned"
    /\ IF ~mc_result[1].success \/ stop_flag
       THEN finished' = mc_result
       ELSE \E success2 \in BOOLEAN :
               finished' = Returned(success2,
                              IF success2 THEN "done, curves drawn"
                              ELSE "done, drawing failed")
    /\ shown' = calculation_finished(finished'[1].success, finished'[1].message)
    /\ pc' = "gui_finished"
    /\ UNCHANGED <<combos_file, bin_files, simulation_count, stop_flag,
                   combos_data, bin_data_list, combo_idx, sim_idx, mc_out,
                   progress, mc_result, trials_after_stop, rng_calls>>
    /\ UNCHANGED <<intervalVars, hdiVars, binVars, comboVars, normVars,
                   interpVars, multVars, sampVars>>

NextMC ==
    \/ LoadCombos
    \/ LoadBins
    \/ BeginCombo
    \/ PollStop
    \/ SimulateTrial
    \/ EndCombo
    \/ FinishRun
    \/ RequestStop
    \/ ThreadFinished

SpecMC == InitMC /\ [][NextMC]_vars

\* ---- runs long enough for the poll inside the trial loop to come due a
\* second time; the stop is requested at the moments that matter for it:
\* between two combinations, or just after a poll has found nothing
LongRunCombos ==
    {[exists |-> TRUE, rows |-> <<FixedWeightRow>>],
     [exists |-> TRUE, rows |-> <<FixedWeightRow, FixedWeightRow>>]}

InitPoll ==
    /\ pc = "mc_start"
    /\ combos_file \in LongRunCombos
    /\ bin_files = BinFiles("const", 1)
    /\ simulation_count \in {STOP_POLL + k - 1 : k \in 1..MaxSim}
    /\ stop_flag = FALSE
    /\ combos_data = <<>>
    /\ bin_data_list = <<>>
    /\ combo_idx = 0
    /\ sim_idx = 0
    /\ mc_out = [i \in 1..MaxRows |-> NoFile]
    /\ progress = <<>>
    /\ mc_result = <<>>
    /\ trials_after_stop = 0
    /\ rng_calls = 0
    /\ finished = <<>>
    /\ shown = NothingShown
    /\ IdleInterval
    /\ IdleHDI
    /\ IdleBins
    /\ IdleCombos
    /\ IdleNorm
    /\ IdleInterp
    /\ IdleMult
    /\ IdleSamp

RequestStopAfterPoll ==
    /\ \/ pc = "mc_combo"
       \/ pc = "mc_sample" /\ sim_idx % STOP_POLL = 0
    /\ ~stop_flag
    /\ stop_flag' = TRUE
    /\ UNCHANGED <<pc, combos_file, bin_files, simulation_count, combos_data,
                   bin_data_list, combo_idx, sim_idx, mc_out, progress,
                   mc_result>>
    /\ UNCHANGED <<trials_after_stop, rng_calls, finished, shown>>
    /\ UNCHANGED <<intervalVars, hdiVars, binVars, comboVars, normVars,
                   interpVars, multVars, sampVars>>

NextPoll ==
    \/ LoadCombos
    \/ LoadBins
    \/ BeginCombo
    \/ PollStop
    \/ SimulateTrial
    \/ EndCombo
    \/ FinishRun
    \/ RequestStopAfterPoll
    \/ ThreadFinished

SpecPoll == InitPoll /\ [][NextPoll]_vars

(***************************************************************************)
(* step7_result_curve_plotting: process_combos_voltage_results.  The       *)
(* directory holds combos_<i>_Voltage.csv for some ordinals i; each file   *)
(* is tagged with the run that wrote it (the run that has just completed   *)
(* wrote 1..run_total and removed nothing).                                *)
(***************************************************************************)
VoltageFile(run, voltages) == <<[run |-> run, voltages |-> voltages]>>
VoltageLists == {<<>>, <<MaxSample>>, <<0, MaxSample, 1>>}
FileStates ==
    {NoFile} \cup {VoltageFile(run, v) : run \in {"current", "earlier"},
                                         v \in VoltageLists}

\* "for filename in os.listdir(step7_dir)" and the sort by ordinal
ListedFiles(dir) == SortSet({i \in 1..Len(dir) : dir[i] # NoFile})

\* one row of Step7_combos_Voltage_ranges.csv
RangeRecord(combo_index, voltages) ==
    IF voltages = <<>>
    THEN [combo_index |-> combo_index, hdi_min |-> 0, median |-> RZero,
          hdi_max |-> 0]
    ELSE [combo_index |-> combo_index,
          hdi_min     |-> calculate_statistics(voltages).hdi_min,
          median      |-> calculate_statistics(voltages).median,
          hdi_max     |-> calculate_statistics(voltages).hdi_max]

\* the directories a completed run of n combinations can leave
Directories(n) ==
    {dir \in [1..MaxOrd -> FileStates] :
        \A i \in 1..MaxOrd :
            IF i <= n
            THEN dir[i] # NoFile /\ dir[i][1].run = "current"
            ELSE dir[i] = NoFile \/ dir[i][1].run = "earlier"}

InitPlot ==
    /\ pc = "plot_start"
    /\ run_total \in 0..MaxOrd
    /\ step7_dir \in Directories(run_total)
    /\ voltage_files = <<>>
    /\ file_pos = 0
    /\ ranges = <<>>
    /\ plot_result = <<>>
    /\ data = <<>>
    /\ statistics = <<>>
    /\ hdi_alpha = RZero
    /\ hdi_result = <<>>
    /\ IdleInterval
    /\ IdleBins
    /\ IdleCombos
    /\ IdleNorm
    /\ IdleMC
    /\ IdleInterp
    /\ IdleMult
    /\ IdleSamp

\* the files are listed and sorted; without any the function returns, with
\* some the ranges file is opened and its header written
ListVoltageFiles ==
    /\ pc = "plot_start"
    /\ voltage_files' = ListedFiles(step7_dir)
    /\ IF voltage_files' = <<>>
       THEN /\ plot_result' = Returned(FALSE, "no voltage files")
            /\ pc' = "plot_returned"
            /\ UNCHANGED <<ranges, file_pos>>
       ELSE /\ ranges' = << <<>> >>
            /\ file_pos' = 1
            /\ pc' = "plot_loop"
            /\ UNCHANGED plot_result
    /\ UNCHANGED <<step7_dir, run_total, data, statistics, hdi_alpha, hdi_result>>
    /\ UNCHANGED <<intervalVars, binVars, comboVars, normVars, mcVars,
                   interpVars, multVars, sampVars>>

\* one pass of "for i, filename in enumerate(voltage_files, 1)"
ProcessVoltageFile ==
    /\ pc = "plot_loop"
    /\ file_pos <= Len(voltage_files)
    /\ LET combo_index == voltage_files[file_pos]
           voltages    == step7_dir[combo_index][1].voltages
       IN  ranges' = <<Append(ranges[1], RangeRecord(combo_index, voltages))>>
    /\ file_pos' = file_pos + 1
    /\ UNCHANGED <<pc, step7_dir, run_total, voltage_files, plot_result, data,
                   statistics, hdi_alpha, hdi_result>>
    /\ UNCHANGED <<intervalVars, binVars, comboVars, normVars, mcVars,
                   interpVars, multVars, sampVars>>

\* the loop is over
FinishPlot ==
    /\ pc = "plot_loop"
    /\ file_pos > Len(voltage_files)
    /\ plot_result' = Returned(TRUE, "processed")
    /\ pc' = "plot_returned"
    /\ UNCHANGED <<step7_dir, run_total, voltage_files, file_pos, ranges, data,
                   statistics, hdi_alpha, hdi_result>>
    /\ UNCHANGED <<intervalVars, binVars, comboVars, normVars, mcVars,
                   interpVars, multVars, sampVars>>

NextPlot == ListVoltageFiles \/ ProcessVoltageFile \/ FinishPlot

SpecPlot == InitPlot /\ [][NextPlot]_vars

(***************************************************************************)
(* step5_interpolation_1: linear_interpolation.  x and y values are        *)
(* integers and the value returned is a rational.                          *)
(***************************************************************************)
\* zip(x_data, y_data)
Zip(xd, yd) ==
    [i \in 1..(IF Len(xd) < Len(yd) THEN Len(xd) ELSE Len(yd)) |->
        <<xd[i], yd[i]>>]

RECURSIVE InsertPair(_, _)
\* p placed after every pair whose x is <= p's (the sort is stable)
InsertPair(p, sorted) ==
    IF sorted = <<>> THEN <<p>>
    ELSE IF p[1] < Head(sorted)[1] THEN <<p>> \o sorted
    ELSE <<Head(sorted)>> \o InsertPair(p, Tail(sorted))

\* a wrong order: the pairs are left as given
PairsAsGiven(pairs) == pairs

RECURSIVE SortPairs(_)
\* sorted(zip(x_data, y_data), key=lambda pair: pair[0])
SortPairs(pairs) ==
    IF pairs = <<>> THEN <<>>
    ELSE InsertPair(pairs[Len(pairs)],
                    SortPairs(SubSeq(pairs, 1, Len(pairs) - 1)))

Value(v)  == [raised |-> "", value |-> v]
Raised(e) == [raised |-> e, value |-> RZero]

linear_interpolation(xd, yd, xt) ==
    LET combined == SortPairs(Zip(xd, yd))
        n        == Len(combined)
        brackets == {i \in 1..(n - 1) :
                        combined[i][1] <= xt /\ xt <= combined[i + 1][1]}
    IN  IF n = 0 THEN Raised("IndexError")
        ELSE IF xt <= combined[1][1] THEN Value(Rat(combined[1][2], 1))
        ELSE IF xt >= combined[n][1] THEN Value(Rat(combined[n][2], 1))
        ELSE IF brackets = {} THEN Value(RZero)
        ELSE LET i  == SetMin(brackets)
                 x1 == combined[i][1]
                 x2 == combined[i + 1][1]
                 y1 == combined[i][2]
                 y2 == combined[i + 1][2]
             IN  IF x2 = x1 THEN Raised("ZeroDivisionError")
                 ELSE Value(Rat(y1 * (x2 - x1) + (y2 - y1) * (xt - x1),
                                x2 - x1))

YValues == {0, 1, 3}

InitInterp ==
    /\ pc = "interp_call"
    /\ \E n \in 0..MaxPts :
          /\ x_data \in [1..n -> 0..MaxX]
          /\ y_data \in [1..n -> YValues]
    /\ x_target \in 0..MaxX
    /\ y_result = <<>>
    /\ IdleInterval
    /\ IdleHDI
    /\ IdleBins
    /\ IdleCombos
    /\ IdleNorm
    /\ IdleMC
    /\ IdleMult
    /\ IdleSamp

LinearInterpolation ==
    /\ pc = "interp_call"
    /\ y_result' = <<linear_interpolation(x_data, y_data, x_target)>>
    /\ pc' = "interp_returned"
    /\ UNCHANGED <<x_data, y_data, x_target>>
    /\ UNCHANGED <<intervalVars, hdiVars, binVars, comboVars, normVars,
                   mcVars, multVars, sampVars>>

NextInterp == LinearInterpolation

SpecInterp == InitInterp /\ [][NextInterp]_vars

(***************************************************************************)
(* step5_interpolation_1: calculate_multipliers.  A csv file is            *)
(* [exists, rows]; the cells are integers and a multiplier is a rational.  *)
(***************************************************************************)
CsvFile(rows) == [exists |-> TRUE, rows |-> rows]
NoCsvFile     == [exists |-> FALSE, rows |-> <<>>]

RECURSIVE ChannelRows(_, _)
\* the (If, Vf) pairs of LED led kept by the loop over interpolation_data:
\* rows long enough to hold both columns, both values non-zero
ChannelRows(rows, led) ==
    IF rows = <<>> THEN <<>>
    ELSE LET row == Head(rows)
             if_col == 2 * led - 1
             vf_col == 2 * led
         IN  IF Len(row) >= vf_col /\ row[if_col] # 0 /\ row[vf_col] # 0
             THEN <<<<row[if_col], row[vf_col]>>>> \o ChannelRows(Tail(rows), led)
             ELSE ChannelRows(Tail(rows), led)

\* a wrong quotient: test current over usage current
QuotientSwapped(y1, y2) == Rat(y2.num * y1.den, y2.den * y1.num)

\* y1 / y2 for y2 # 0
Quotient(y1, y2) == Rat(y1.num * y2.den, y1.den * y2.num)

\* the multiplier of one LED (the body of "for led_index in range(5)")
Multiplier(rows, led, x1, x2) ==
    LET pts    == ChannelRows(rows, led)
        x_pts  == [i \in 1..Len(pts) |-> pts[i][1]]
        y_pts  == [i \in 1..Len(pts) |-> pts[i][2]]
        y1     == linear_interpolation(x_pts, y_pts, x1)
        y2     == linear_interpolation(x_pts, y_pts, x2)
    IN  IF pts = <<>> THEN RZero
        ELSE IF y1.raised # "" \/ y2.raised # "" THEN RZero
        ELSE IF y2.value.num # 0 THEN Quotient(y1.value, y2.value)
        ELSE RZero

\* current_data[:5]
First5(row) == SubSeq(row, 1, IF Len(row) < 5 THEN Len(row) ELSE 5)

\* calculate_multipliers: what is returned, and the row written (if any)
calculate_multipliers(interp, cur, step2) ==
    IF ~interp.exists \/ ~cur.exists \/ ~step2.exists
    THEN [success |-> FALSE, written |-> <<>>]
    ELSE IF cur.rows = <<>> \/ step2.rows = <<>>
    THEN [success |-> FALSE, written |-> <<>>]          \* list(reader)[0]
    ELSE LET usage_currents == First5(cur.rows[1])
             test_currents  == First5(step2.rows[1])
             HasData(led)   == ChannelRows(interp.rows, led) # <<>>
         IN  IF \E led \in 1..5 :
                    /\ HasData(led)
                    /\ led > Len(usage_currents) \/ led > Len(test_currents)
             THEN [success |-> FALSE, written |-> <<>>]  \* IndexError
             ELSE [success |-> TRUE,
                   written |-> <<[led \in 1..5 |->
                       IF HasData(led)
                       THEN Multiplier(interp.rows, led,
                                       usage_currents[led], test_currents[led])
                       ELSE RZero]>>]

\* ---- the inputs: three rows of If/Vf cells per LED (blank cells are 0)
CurveZero   == <<<<0, 0>>, <<0, 0>>, <<0, 0>>>>
CurveSorted == <<<<1, 2>>, <<3, 4>>, <<0, 0>>>>
CurveMixed  == <<<<3, 4>>, <<0, 0>>, <<1, 2>>>>
CurveHalf   == <<<<0, 3>>, <<2, 0>>, <<0, 0>>>>
CurveHalfPt == <<<<0, 3>>, <<1, 1>>, <<3, 2>>>>
CurveSingle == <<<<2, 3>>, <<0, 0>>, <<0, 0>>>>
CurveCross  == <<<<1, 0 - 1>>, <<3, 1>>, <<0, 0>>>>
Curves == {CurveZero, CurveSorted, CurveMixed, CurveHalf, CurveHalfPt,
           CurveSingle, CurveCross}

\* the rows of step5_interpolation.csv for the five curves, cut to width
InterpRows(curves, width) ==
    [r \in 1..3 |->
        SubSeq(curves[1][r] \o curves[2][r] \o curves[3][r] \o curves[4][r]
                 \o curves[5][r], 1, width)]

InterpFiles ==
    {CsvFile(InterpRows(<<c1, CurveSorted, CurveZero, c4, c5>>, width)) :
        c1 \in Curves, c4 \in {CurveMixed, CurveHalf}, c5 \in Curves,
        width \in {10, 6}}
    \cup {CsvFile(<<>>), NoCsvFile}

CurrentRows ==
    {<<a, b, a, b, b>> : a \in 0..MaxCurrent, b \in 0..MaxCurrent}
CurrentFiles ==
    {CsvFile(<<row>>) : row \in CurrentRows}
    \cup {CsvFile(<<>>), NoCsvFile,
          CsvFile(<<<<1, 2, 1, 2>>>>), CsvFile(<<<<1, 2, 1, 2, 2, 3>>>>)}
Step2Files ==
    {CsvFile(<<<<c, c, c, c, c>>>>) : c \in 0..MaxCurrent} \cup {NoCsvFile}

InitMult ==
    /\ pc = "mult_call"
    /\ interpolation_file \in InterpFiles
    /\ current_file \in CurrentFiles
    /\ step2_currents_file \in Step2Files
    /\ multiplier_file = <<>>
    /\ mult_result = <<>>
    /\ IdleInterval
    /\ IdleHDI
    /\ IdleBins
    /\ IdleCombos
    /\ IdleNorm
    /\ IdleMC
    /\ IdleInterp
    /\ IdleSamp

CalculateMultipliers ==
    /\ pc = "mult_call"
    /\ LET out == calculate_multipliers(interpolation_file, current_file,
                                        step2_currents_file)
       IN  /\ mult_result' = <<out.success>>
           /\ multiplier_file' = out.written
    /\ pc' = "mult_returned"
    /\ UNCHANGED <<interpolation_file, current_file, step2_currents_file>>
    /\ UNCHANGED <<intervalVars, hdiVars, binVars, comboVars, normVars,
                   mcVars, interpVars, sampVars>>

NextMult == CalculateMultipliers

SpecMult == InitMult /\ [][NextMult]_vars

(***************************************************************************)
(* step1_rawdata_analysis_2: _collect_with_sampling.  The scalars of the   *)
(* stream are numbered: the value at stream position p is p, so that a     *)
(* value tells where it was taken from.                                    *)
(***************************************************************************)
RECURSIVE Flatten(_)
\* [v for r in data_numeric for v in r]
Flatten(rows) ==
    IF rows = <<>> THEN <<>> ELSE Head(rows) \o Flatten(Tail(rows))

\* a wrong draw: k values taken with replacement
SamplesWithRepeats(flat_all, k) ==
    {[i \in 1..k |-> flat_all[f[i]]] : f \in [1..k -> 1..Len(flat_all)]}

\* random.sample(flat_all, k): k values taken at distinct positions, in any
\* order
Samples(flat_all, k) ==
    {[i \in 1..k |-> flat_all[f[i]]] :
        f \in {g \in [1..k -> 1..Len(flat_all)] :
                 \A a, b \in 1..k : a # b => g[a] # g[b]}}

\* a wrong switch: the reservoir is drawn when total reaches k
ReachesCap(total, k) == total >= k

\* "if total > k"
ExceedsCap(total, k) == total > k

RECURSIVE NumberRows(_, _)
\* the rows of the given lengths, their values numbered from first on
NumberRows(lengths, first) ==
    IF lengths = <<>> THEN <<>>
    ELSE <<[i \in 1..Head(lengths) |-> first + i - 1]>>
            \o NumberRows(Tail(lengths), first + Head(lengths))

Streams ==
    {NumberRows(lengths, 1) :
        lengths \in UNION {[1..n -> 0..MaxRowLen] : n \in 0..MaxStreamRows}}

InitSamp ==
    /\ pc = "collect_loop"
    /\ row_iter \in Streams
    /\ max_points \in 0..MaxCap
    /\ data_numeric = <<>>
    /\ reservoir = <<>>
    /\ total_count = 0
    /\ using_reservoir = FALSE
    /\ row_pos = 1
    /\ val_pos = 0
    /\ collected = <<>>
    /\ IdleInterval
    /\ IdleHDI
    /\ IdleBins
    /\ IdleCombos
    /\ IdleNorm
    /\ IdleMC
    /\ IdleInterp
    /\ IdleMult

\* one pass of "for row in row_iter": an empty row is skipped; in row mode
\* the row is buffered and, when total exceeds k, the reservoir is drawn;
\* in reservoir mode the loop over the row's values starts
TakeRow ==
    /\ pc = "collect_loop"
    /\ row_pos <= Len(row_iter)
    /\ LET row == row_iter[row_pos]
           k   == max_points
       IN  IF row = <<>>
           THEN /\ row_pos' = row_pos + 1
                /\ UNCHANGED <<pc, data_numeric, reservoir, total_count,
                               using_reservoir, val_pos>>
           ELSE IF using_reservoir
           THEN /\ pc' = "collect_vals"
                /\ val_pos' = 1
                /\ UNCHANGED <<data_numeric, reservoir, total_count,
                               using_reservoir, row_pos>>
           ELSE /\ total_count' = total_count + Len(row)
                /\ IF ExceedsCap(total_count', k)
                   THEN /\ reservoir' \in
                              Samples(Flatten(Append(data_numeric, row)), k)
                        /\ data_numeric' = <<>>
                        /\ using_reservoir' = TRUE
                   ELSE /\ data_numeric' = Append(data_numeric, row)
                        /\ UNCHANGED <<reservoir, using_reservoir>>
                /\ row_pos' = row_pos + 1
                /\ UNCHANGED <<pc, val_pos>>
    /\ UNCHANGED <<row_iter, max_points, collected>>
    /\ UNCHANGED <<intervalVars, hdiVars, binVars, comboVars, normVars,
                   mcVars, interpVars, multVars>>

\* one pass of "for val in row" in reservoir mode
TakeValue ==
    /\ pc = "collect_vals"
    /\ LET row == row_iter[row_pos]
           val == row[val_pos]
           k   == max_points
       IN  /\ total_count' = total_count + 1
           /\ \E j \in 1..total_count' :
                 reservoir' = IF j <= k THEN [reservoir EXCEPT ![j] = val]
                              ELSE reservoir
           /\ IF val_pos = Len(row)
              THEN /\ pc' = "collect_loop"
                   /\ row_pos' = row_pos + 1
                   /\ val_pos' = 0
              ELSE /\ val_pos' = val_pos + 1
                   /\ UNCHANGED <<pc, row_pos>>
    /\ UNCHANGED <<row_iter, max_points, data_numeric, using_reservoir,
                   collected>>
    /\ UNCHANGED <<intervalVars, hdiVars, binVars, comboVars, normVars,
                   mcVars, interpVars, multVars>>

\* the stream is exhausted: the reservoir or the buffered rows are returned
ReturnCollected ==
    /\ pc = "collect_loop"
    /\ row_pos > Len(row_iter)
    /\ collected' = <<IF using_reservoir
                      THEN [i \in 1..Len(reservoir) |-> <<reservoir[i]>>]
                      ELSE data_numeric>>
    /\ pc' = "collect_returned"
    /\ UNCHANGED <<row_iter, max_points, data_numeric, reservoir, total_count,
                   using_reservoir, row_pos, val_pos>>
    /\ UNCHANGED <<intervalVars, hdiVars, binVars, comboVars, normVars,
                   mcVars, interpVars, multVars>>

NextSamp == TakeRow \/ TakeValue \/ ReturnCollected

SpecSamp == InitSamp /\ [][NextSamp]_vars

(***************************************************************************)
(* Properties.                                                             *)
(***************************************************************************)
TableProps == [k \in 1..Len(stats) |-> stats[k].proportion]
TableSpan(i, j) == stats[j].value - stats[i].value

\* C1: for a non-empty category statistics table and a target t in (0, 1],
\* the returned [min, max] are table values, the returned probability is the
\* sum of the proportions from min to max and is at least t, and no
\* contiguous run of entries with a strictly smaller value span reaches t.
\* (All quantities are exact here, so ">= t - 1e-9" is ">= t".)
C1_ShortestCoveringInterval ==
    (pc = "interval" /\ stats # <<>>) =>
        \E i, j \in 1..Len(stats) :
            /\ i <= j
            /\ interval.min_val = <<stats[i].value>>
            /\ interval.max_val = <<stats[j].value>>
            /\ REq(interval.interval_prob, RSum(TableProps, i, j))
            /\ RLeq(target_prob, interval.interval_prob)
            /\ \A a, b \in 1..Len(stats) :
                  (a <= b /\ TableSpan(a, b) < TableSpan(i, j))
                      => RLt(RSum(TableProps, a, b), target_prob)

\* C1 witness: a table of three or more values whose shortest interval is
\* neither a single value nor the whole table, and does not start at the
\* first entry.
C1_Witness ==
    /\ pc = "interval"
    /\ Len(stats) >= 3
    /\ interval.min_val # <<stats[1].value>>
    /\ interval.min_val # interval.max_val
    /\ RLt(interval.interval_prob, Rat(1, 1))

\* C2: for every non-empty sample set the summary record satisfies
\* HDI_min <= median <= HDI_max.
C2_MedianInsideHDI ==
    (pc \in {"summary", "written"} /\ Len(data) >= 1) =>
        /\ RLeq(Rat(statistics.hdi_min, 1), statistics.median)
        /\ RLeq(statistics.median, Rat(statistics.hdi_max, 1))


BinsHolding(r) == {b \in 1..BIN_COUNT : r \in bin_dfs[b]}

\* C3: for a node row accepted by validation and any population (elements
\* equal to a node value included), no element is in two bins, and every
\* element is in exactly one bin or counted as unassigned.
C3_BinsDisjoint ==
    (pc = "bins_written" /\ node_error.message = "") =>
        /\ \A r \in 1..Len(df_led) : Cardinality(BinsHolding(r)) <= 1
        /\ unassigned_count
              = Cardinality({r \in 1..Len(df_led) : BinsHolding(r) = {}})

\* the qualifying rows of a channel: the rows of its mix-pattern input that
\* are not all zero, in input order; and the rows it offers to the product
QualifyingRows(led) == SelectSeq(input_files[led], IsCandidate)
OfferedRows(led) ==
    IF QualifyingRows(led) = <<>> THEN << <<0, 0, 0, 0>> >>
    ELSE QualifyingRows(led)
OfferedCount(led) == Len(OfferedRows(led))
Block(row, led) == SubSeq(row, 4 * (led - 1) + 1, 4 * led)

RECURSIVE CountProduct(_)
\* the product of the offered counts of channels led..5
CountProduct(led) ==
    IF led > LED_COUNT THEN 1 ELSE OfferedCount(led) * CountProduct(led + 1)

\* C4: with c1..c5 qualifying rows the generator writes exactly
\* max(c1,1) x ... x max(c5,1) rows of 20 values each, and a channel with no
\* qualifying row contributes the block (0,0,0,0) to every combination.
C4_CombinationCount ==
    (pc = "combos") =>
        /\ Len(combos) = CountProduct(1)
        /\ \A idx \in 1..Len(combos) : Len(combos[idx]) = 20
        /\ \A led \in LEDs : QualifyingRows(led) = <<>> =>
              \A idx \in 1..Len(combos) :
                  Block(combos[idx], led) = <<0, 0, 0, 0>>

\* C5: a channel whose input holds 6 rows that are not all zero offers all
\* 6 of them to the product, and five such channels give 6^5 = 7776 rows.
C5_SixRowsPerChannel ==
    (pc = "combos") =>
        /\ \A led \in LEDs : Len(QualifyingRows(led)) = 6 =>
              \A q \in 1..6 : \E idx \in 1..Len(combos) :
                  Block(combos[idx], led) = QualifyingRows(led)[q]
        /\ (\A led \in LEDs : Len(QualifyingRows(led)) = 6)
              => Len(combos) = 7776

\* the row each channel contributes to combination idx (1-based) in
\* Cartesian-product order with channel 5 varying fastest
ChosenIndex(idx, led) ==
    (((idx - 1) \div CountProduct(led + 1)) % OfferedCount(led)) + 1

\* C6: the rows are in Cartesian-product order over channels 1..5, channel 5
\* varying fastest, candidates in input order, each row the concatenation of
\* the chosen row of each channel; with one qualifying row per channel the
\* single combination is the concatenation of those five rows.
C6_ProductOrder ==
    (pc = "combos") =>
        /\ Len(combos) = CountProduct(1)
        /\ \A idx \in 1..Len(combos) : \A led \in LEDs :
              Block(combos[idx], led) = OfferedRows(led)[ChosenIndex(idx, led)]

\* exact products of naturals below 4 * 10^8, as 4 digits in base 10^4
BigMul(a, b) ==
    LET B  == 10000
        p0 == (a % B) * (b % B)
        p1 == (a \div B) * (b % B) + (a % B) * (b \div B) + p0 \div B
        p2 == (a \div B) * (b \div B) + p1 \div B
    IN  <<p2 \div B, p2 % B, p1 % B, p0 % B>>

RECURSIVE LexLeq(_, _)
LexLeq(x, y) ==
    IF x = <<>> THEN TRUE
    ELSE IF Head(x) # Head(y) THEN Head(x) < Head(y)
    ELSE LexLeq(Tail(x), Tail(y))

\* |out * 1e-6 - v / s| <= 0.5e-6: out is v / s rounded to 6 decimals
IsRoundedAbs(out, v, s) ==
    /\ out >= 0
    /\ out = 0 \/ LexLeq(BigMul(2 * out - 1, s), BigMul(2 * Micro, v))
    /\ LexLeq(BigMul(2 * Micro, v), BigMul(2 * out + 1, s))
IsRounded(out, v, s) ==
    IF v < 0 THEN IsRoundedAbs(0 - out, 0 - v, s) ELSE IsRoundedAbs(out, v, s)

InValue(i, c) ==
    IF c <= Len(combos_raw[i]) THEN combos_raw[i][c] ELSE 0
GroupCols(g) == (4 * (g - 1) + 1)..(4 * g)
InGroupSum(i, g) ==
    InValue(i, 4 * g - 3) + InValue(i, 4 * g - 2) + InValue(i, 4 * g - 1)
        + InValue(i, 4 * g)
OutGroupSum(i, g) ==
    out_rows[i][4 * g - 3] + out_rows[i][4 * g - 2] + out_rows[i][4 * g - 1]
        + out_rows[i][4 * g]
Abs(x) == IF x < 0 THEN -x ELSE x

\* C7: every input row gives exactly one output row, at the same position,
\* computed from that row alone: in each of the 5 groups of 4, if the group
\* sum is > 0 each output is the input divided by the group sum (rounded to
\* 6 decimals), otherwise the output group is (0,0,0,0).
C7_GroupwiseNormalization ==
    (pc = "normalized") =>
        /\ Len(out_rows) = Len(combos_raw)
        /\ \A i \in 1..Len(out_rows) :
              /\ Len(out_rows[i]) = 20
              /\ \A g \in 1..5 : \A c \in GroupCols(g) :
                    IF InGroupSum(i, g) > 0
                    THEN IsRounded(out_rows[i][c], InValue(i, c),
                                   InGroupSum(i, g))
                    ELSE out_rows[i][c] = 0

\* C7 witness: a two-row file whose second row has a group with three
\* different non-zero quotients beside an all-zero group.
C7_Witness ==
    /\ pc = "normalized"
    /\ passes = 1
    /\ Len(out_rows) = 2
    /\ \E g \in 1..5 :
          /\ OutGroupSum(2, g) = 0
          /\ InGroupSum(2, g) = 0
    /\ \E g \in 1..5 : \E c, e \in GroupCols(g) :
          /\ 0 < out_rows[2][c]
          /\ out_rows[2][c] < out_rows[2][e]
          /\ out_rows[2][e] < Micro \div 2

NoNegative(row) == \A c \in 1..Len(row) : row[c] >= 0

ConstantPopulations(c) ==
    /\ bin_data_list # <<>>
    /\ \A k \in 1..SLOT_COUNT :
          /\ bin_data_list[k] # <<>>
          /\ \A j \in 1..Len(bin_data_list[k]) : bin_data_list[k][j] = c
NonNegativeWeights(combo) ==
    /\ Len(combo) >= 20
    /\ \A k \in 1..20 : combo[k] >= 0
WeightSum(combo) == SumSeq(SubSeq(combo, 1, 20))
\* the samples of combos_<i>_Voltage.csv are those of the running simulation
BeingWritten(i) ==
    i < combo_idx \/ (i = combo_idx /\ pc \in {"mc_trial", "mc_sample"})

\* C9: for a combination row with weights w_1..w_20 >= 0 and 20 populations
\* that all hold only the constant c, every trial's total is
\* c x (w_1 + ... + w_20): floor(w) whole draws plus remainder x one more draw.
\* (Totals and weights are both counted in units of 1 / WScale.)
C9_ConstantPopulationTotal ==
    \A i \in 1..Len(combos_data) : \A c \in 0..(MaxVolt + 1) :
        (/\ ConstantPopulations(c)
         /\ NonNegativeWeights(combos_data[i])
         /\ BeingWritten(i)
         /\ mc_out[i] # NoFile)
        => \A t \in 1..Len(mc_out[i][1]) :
              mc_out[i][1][t] = c * WeightSum(combos_data[i])

\* C9 witness: a trial was written for a row that has a weight with a whole
\* part and a remainder, a weight below 1 and a weight 0, over populations
\* that hold only c > 0.
C9_Witness ==
    /\ pc = "mc_trial"
    /\ sim_idx >= 1
    /\ \E c \in 1..MaxVolt : ConstantPopulations(c)
    /\ NonNegativeWeights(combos_data[combo_idx])
    /\ \E k \in 1..20 :
          /\ combos_data[combo_idx][k] > WScale
          /\ combos_data[combo_idx][k] % WScale # 0
    /\ \E k \in 1..20 :
          /\ combos_data[combo_idx][k] > 0
          /\ combos_data[combo_idx][k] < WScale
    /\ \E k \in 1..20 : combos_data[combo_idx][k] = 0
    /\ mc_out[combo_idx][1][1] > 0

XValues == {x_data[i] : i \in 1..Len(x_data)}
YPairedWith(x) == {y_data[i] : i \in {j \in 1..Len(x_data) : x_data[j] = x}}
OnLine(r, xa, ya, xb, yb, x) ==
    r.num * (xb - xa) = (ya * (xb - xa) + (yb - ya) * (x - xa)) * r.den

PointsOf(led) ==
    {<<row[2 * led - 1], row[2 * led]>> :
        row \in {interpolation_file.rows[r] :
                    r \in {q \in 1..Len(interpolation_file.rows) :
                             /\ Len(interpolation_file.rows[q]) >= 2 * led
                             /\ interpolation_file.rows[q][2 * led - 1] # 0
                             /\ interpolation_file.rows[q][2 * led] # 0}}}
\* r is the value at x of the interpolation over the points pts (as C10)
InterpolatesTo(r, pts, x) ==
    LET xs == {p[1] : p \in pts}
        lo == SetMin(xs)
        hi == SetMax(xs)
        Y(u) == {p[2] : p \in {q \in pts : q[1] = u}}
    IN  IF x <= lo THEN \E y \in Y(lo) : REq(r, Rat(y, 1))
        ELSE IF x >= hi THEN \E y \in Y(hi) : REq(r, Rat(y, 1))
        ELSE IF x \in xs THEN \E y \in Y(x) : REq(r, Rat(y, 1))
        ELSE LET xa == SetMax({u \in xs : u < x})
                 xb == SetMin({u \in xs : u > x})
             IN  \E ya \in Y(xa) : \E yb \in Y(xb) :
                    OnLine(r, xa, ya, xb, yb, x)
\* the values linear interpolation over pts can give at x, as fractions of
\* denominator den
VfAt(pts, x, den) ==
    {Rat(n, den) : n \in {m \in (0 - 8 * den)..(8 * den) :
                            InterpolatesTo(Rat(m, den), pts, x)}}

\* C11: a written multiplier row has 5 entries; the entry of a LED with no
\* (If, Vf) point (data all zero or missing) is 0, and the entry of any
\* other LED is Vf(usage current) / Vf(test current), both by linear
\* interpolation over the LED's points (0 when Vf(test current) is 0).
C11_Multipliers ==
    (pc = "mult_returned" /\ multiplier_file # <<>>) =>
        /\ Len(multiplier_file[1]) = 5
        /\ \A led \in 1..5 :
              LET m   == multiplier_file[1][led]
                  pts == PointsOf(led)
                  x1  == current_file.rows[1][led]
                  x2  == step2_currents_file.rows[1][led]
              IN  IF pts = {} THEN m.num = 0 /\ m.den # 0
                  ELSE \E y1 \in VfAt(pts, x1, 2) : \E y2 \in VfAt(pts, x2, 2) :
                          IF y2.num = 0 THEN m.num = 0 /\ m.den # 0
                          ELSE /\ m.den # 0
                               /\ m.num * y2.num * y1.den
                                    = y1.num * y2.den * m.den

\* C11 witness: a row was written in which LED 1 has a multiplier other
\* than 0 and 1 and LED 3, whose cells are all zero, has 0.
C11_Witness ==
    /\ pc = "mult_returned"
    /\ multiplier_file # <<>>
    /\ PointsOf(1) # {}
    /\ multiplier_file[1][1].num # 0
    /\ multiplier_file[1][1].num # multiplier_file[1][1].den
    /\ PointsOf(3) = {}
    /\ multiplier_file[1][3].num = 0

RECURSIVE NonEmptyRows(_)
NonEmptyRows(rows) ==
    IF rows = <<>> THEN <<>>
    ELSE IF Head(rows) = <<>> THEN NonEmptyRows(Tail(rows))
    ELSE <<Head(rows)>> \o NonEmptyRows(Tail(rows))
StreamTotal == Len(Flatten(row_iter))

\* C12: if the stream holds at most cap scalars (cap itself included) the
\* result is the sequence of its non-empty rows, unchanged; if it holds more
\* the result is exactly cap rows of one scalar each.
C12_CollectWithSampling ==
    (pc = "collect_returned") =>
        IF StreamTotal <= max_points
        THEN collected[1] = NonEmptyRows(row_iter)
        ELSE /\ Len(collected[1]) = max_points
             /\ \A i \in 1..Len(collected[1]) : Len(collected[1][i]) = 1

\* C12 witness: a stream of more than cap scalars, some of them consumed in
\* reservoir mode, was reduced to cap >= 1 rows.
C12_Witness ==
    /\ pc = "collect_returned"
    /\ max_points >= 1
    /\ StreamTotal > max_points + 1
    /\ total_count = StreamTotal
    /\ Len(row_iter) >= 2
    /\ Len(row_iter[1]) > max_points
    /\ row_iter[Len(row_iter)] # <<>>
    /\ Len(collected[1]) = max_points

ZerosOnlyOutside(nv) ==
    ~ \E i, j, k \in 1..Len(nv) :
         i < j /\ j < k /\ nv[i] # 0 /\ nv[j] = 0 /\ nv[k] # 0
NonZeroIncreasing(nv) ==
    \A i, j \in 1..Len(nv) : (i < j /\ nv[i] # 0 /\ nv[j] # 0) => nv[i] < nv[j]
Acceptable(nv) ==
    Len(nv) = 5 /\ ZerosOnlyOutside(nv) /\ NonZeroIncreasing(nv)

\* C13: _validate_node_row accepts a row if and only if it has exactly 5
\* values, no zero between two non-zero values and strictly increasing
\* non-zero values; any other row raises an error naming the 1-based row
\* number, and _load_nodes then returns no node set.
C13_NodeRowValidation ==
    /\ (pc = "validated") =>
          /\ (node_error.message = "") <=> Acceptable(node_vals)
          /\ node_error.message # "" => node_error.row = node_row + 1
    /\ (pc = "error" /\ Len(node_vals) >= 5) =>
          /\ ~Acceptable(SubSeq(node_vals, 1, 5))
          /\ node_error.message # ""
          /\ node_error.row = node_row + 1
          /\ df_led = <<>> /\ bin_dfs = <<>>
    /\ (pc \in {"loaded", "raw_read", "bins_written"}) =>
          /\ Acceptable(node_vals)
          /\ node_error.message = ""

\* C13 witness: _load_nodes raised for the third row of the file, whose
\* zeros are in place but whose non-zero values are not increasing.
C13_Witness ==
    /\ pc = "error"
    /\ node_row = 2
    /\ node_error.row = 3
    /\ Len(node_vals) = 5
    /\ ZerosOnlyOutside(node_vals)
    /\ ~NonZeroIncreasing(node_vals)

\* C14: for a validated node row and each bin b in 1..4 whose two nodes are
\* non-zero and increasing, the bin holds the elements v with
\* n[b] < v <= n[b+1] (an element equal to n[b] is not in the bin; the upper
\* bound is inclusive, up to the 1e-10 tolerance); any other bin is empty.
C14_BinContents ==
    (pc = "bins_written" /\ Len(df_led) > 0) =>
        \A b \in 1..4 :
            IF node_vals[b] # 0 /\ node_vals[b + 1] # 0
               /\ node_vals[b] < node_vals[b + 1]
            THEN \A r \in 1..Len(df_led) :
                    /\ (node_vals[b] < df_led[r] /\ df_led[r] <= node_vals[b + 1])
                          => r \in bin_dfs[b]
                    /\ r \in bin_dfs[b] =>
                          /\ node_vals[b] < df_led[r]
                          /\ df_led[r] <= node_vals[b + 1] + Tolerance
            ELSE bin_dfs[b] = {}

\* C15: calculate_counts_and_proportions(P) returns, for a non-empty P, one
\* entry per distinct value of P in strictly ascending value order, each with
\* count = the multiplicity of its value in P and proportion = count / len(P),
\* so that the counts sum to len(P) and the proportions to 1; for an empty P
\* it returns a table with no entry.
CountOf(nums, v) == Cardinality({k \in 1..Len(nums) : nums[k] = v})

RECURSIVE CountSum(_, _)
CountSum(st, j) == IF j = 0 THEN 0 ELSE CountSum(st, j - 1) + st[j].count

C15_CountsAndProportions ==
    pc \in {"stats", "interval"} =>
        LET n == Len(stats)
            total == Len(numbers)
        IN  /\ (total = 0) => (stats = <<>>)
            /\ (total > 0) =>
                  /\ {stats[e].value : e \in 1..n}
                        = {numbers[k] : k \in 1..total}
                  /\ \A e \in 1..(n - 1) : stats[e].value < stats[e + 1].value
                  /\ \A e \in 1..n :
                        /\ stats[e].count = CountOf(numbers, stats[e].value)
                        /\ REq(stats[e].proportion, Rat(stats[e].count, total))
                  /\ CountSum(stats, n) = total
                  /\ REq(RSum([e \in 1..n |-> stats[e].proportion], 1, n),
                         Rat(1, 1))

\* a population with a repeated value that is not met in ascending order
C15_Witness ==
    /\ pc = "stats"
    /\ Len(numbers) = MaxPop
    /\ Len(stats) = 2
    /\ numbers[1] > numbers[2]
    /\ numbers[3] = numbers[1]
    /\ stats[2].count >= 2

\* ---- run_monte_carlo_simulation: failure modes
InRun ==
    pc \in {"mc_start", "mc_load_bins", "mc_combo", "mc_trial", "mc_sample",
            "mc_returned"}
NothingWritten == \A i \in 1..Len(mc_out) : mc_out[i] = NoFile
NoUsableRow(file) ==
    \A r \in 1..Len(file.rows) : file.rows[r].text \/ file.rows[r].cells = <<>>
SomePopulationMissing == \E k \in 1..SLOT_COUNT : ~bin_files[k].exists

\* C16 (as stated): when the combos file or any of the 20 population files
\* cannot be located, the run fails before any trial is simulated and before
\* any output is written.
C16_FailsOnAnyMissingInput ==
    (InRun /\ (~combos_file.exists \/ SomePopulationMissing)) =>
        /\ NothingWritten
        /\ pc \notin {"mc_trial", "mc_sample"}
        /\ (pc = "mc_returned" => ~mc_result[1].success)

\* C16 (amended): when the combos file cannot be located or holds no usable
\* row, the run fails with the matching message before any trial is simulated
\* and before any output is written; a population file that cannot be
\* located is no failure, its population is {0}.
C16_FailsOnMissingCombos ==
    InRun =>
        /\ (~combos_file.exists \/ NoUsableRow(combos_file)) =>
              /\ NothingWritten
              /\ pc \in {"mc_start", "mc_returned"}
              /\ bin_data_list = <<>>
              /\ (pc = "mc_returned" =>
                    mc_result = Returned(FALSE,
                                   IF combos_file.exists THEN "combos file empty"
                                   ELSE "combos file missing"))
        /\ \A k \in 1..SLOT_COUNT :
              (bin_data_list # <<>> /\ ~bin_files[k].exists)
                  => bin_data_list[k] = <<0>>

\* a file that exists but holds a text row only: the run has returned
C16_Witness ==
    /\ pc = "mc_returned"
    /\ combos_file.exists
    /\ combos_file.rows = <<BadRow>>
    /\ mc_result[1].message = "combos file empty"

\* ---- the populations of a run
NoNumericValue(file) ==
    \/ ~file.exists
    \/ file.size = 0
    \/ \A j \in 1..Len(file.values) : file.values[j] = <<>>

\* C17: each of the 20 populations handed to the trial loop is non-empty, and
\* a slot whose file is missing, empty or holds no numeric value has the
\* population {0}.
C17_PopulationsNonEmpty ==
    (InRun /\ bin_data_list # <<>>) =>
        \A k \in 1..SLOT_COUNT :
            /\ bin_data_list[k] # <<>>
            /\ NoNumericValue(bin_files[k]) => bin_data_list[k] = <<0>>

\* ---- cancellation
Cancelled == pc = "mc_returned" /\ mc_result = Returned(FALSE, "stopped by user")

\* C18: after a cancelled run every output file that is left holds exactly
\* simulation_count samples: the files of the combinations completed before
\* the cancellation are whole, and the partial file of the combination in
\* progress is not left behind.
C18_CancelledRunOutputs ==
    Cancelled =>
        \A i \in 1..Len(mc_out) :
            mc_out[i] # NoFile => Len(mc_out[i][1]) = simulation_count

StoppedByUser(r) == r.message = "stopped by user"

\* C19: a cancellation reaches the caller of run_monte_carlo_simulation as an
\* outcome of its own: it is told apart from every failure, and it is not
\* reported as a failure.
C19_CancellationOwnOutcome ==
    /\ (pc \in {"mc_returned", "gui_finished"} /\ StoppedByUser(mc_result[1]))
          => \A m \in {"combos file missing", "combos file empty"} :
                mc_result # Returned(FALSE, m)
    /\ (pc = "gui_finished" /\ StoppedByUser(finished[1]))
          => shown.log # "failed" /\ shown.box # "critical"
    /\ (pc = "gui_finished" /\ ~finished[1].success /\ ~StoppedByUser(finished[1]))
          => shown = [log |-> "failed", box |-> "critical"]

\* ---- the outputs of a successful run
Succeeded == pc = "mc_returned" /\ mc_result = Returned(TRUE, "done")

\* combos_<i>_Voltage.csv holds simulation_count samples, each a total the
\* weights "cells" can give
ComputedFrom(i, cells) ==
    /\ i <= Len(mc_out)
    /\ mc_out[i] # NoFile
    /\ Len(mc_out[i][1]) = simulation_count
    /\ \A t \in 1..Len(mc_out[i][1]) :
          mc_out[i][1][t] \in TrialTotals(cells, bin_data_list, SlotsUsed(cells))

\* C20: after a successful run over a combos file of N rows, for every i in
\* 1..N the output combos_i holds exactly simulation_count samples, all
\* computed from row i of the file.
C20_OutputsFollowFileRows ==
    Succeeded =>
        \A i \in 1..Len(combos_file.rows) :
            ComputedFrom(i, combos_file.rows[i].cells)

\* ---- the summary records
StaleOrdinals ==
    {i \in 1..Len(step7_dir) :
        step7_dir[i] # NoFile /\ step7_dir[i][1].run = "earlier"}

\* C21: process_combos_voltage_results writes exactly one record for each
\* combination of the current run, in ascending ordinal order, and no record
\* from a sample file of an earlier run that the current run did not
\* overwrite.
C21_OneRecordPerCombination ==
    (pc = "plot_returned" /\ plot_result[1].success /\ run_total >= 1) =>
        /\ Len(ranges[1]) = run_total
        /\ \A i \in 1..Len(ranges[1]) :
              /\ ranges[1][i].combo_index = i
              /\ ranges[1][i].combo_index \notin StaleOrdinals

\* ---- the highest density interval
InsideHDI ==
    {k \in 1..Len(data) :
        statistics.hdi_min <= data[k] /\ data[k] <= statistics.hdi_max}

\* C22: the interval [HDI_min, HDI_max] reported for a non-empty sample set
\* holds at least the fraction 1 - alpha of the samples.
C22_HDICoversMass ==
    (pc \in {"summary", "written"} /\ Len(data) >= 1) =>
        Cardinality(InsideHDI) * FourSigmaAlpha.den
            >= (FourSigmaAlpha.den - FourSigmaAlpha.num) * Len(data)

\* ---- progress reports
AfterLoad == pc \in {"mc_load_bins", "mc_combo", "mc_trial", "mc_sample"}
              \/ (pc \in {"mc_returned", "gui_finished"} /\ combos_data # <<>>)
FilesOpened == Cardinality({i \in 1..Len(mc_out) : mc_out[i] # NoFile})
CombosFinished == IF combo_idx = 0 THEN 0 ELSE combo_idx - 1

\* C23 (as stated): the callback is invoked per combination, every report
\* carries total = N, the done values are non-decreasing from 0, and a
\* reported done value never exceeds the number of combinations whose
\* simulation has finished.
C23_ProgressCountsFinished ==
    AfterLoad =>
        /\ Len(progress) = 1 + FilesOpened
        /\ progress[1][1] = 0
        /\ \A j \in 1..Len(progress) : progress[j][2] = Len(combos_data)
        /\ \A j \in 1..(Len(progress) - 1) : progress[j][1] <= progress[j + 1][1]
        /\ progress[Len(progress)][1] <= CombosFinished

\* C23 (amended): the callback is invoked once after the combos file is
\* loaded, with 0, and once at the start of each combination, with the
\* ordinal of the combination about to be simulated (one more than the
\* number finished); never per trial; every report carries total = N.
C23_ProgressNamesStarted ==
    AfterLoad =>
        /\ Len(progress) = 1 + FilesOpened
        /\ \A j \in 1..Len(progress) :
              progress[j] = <<j - 1, Len(combos_data)>>
        /\ Len(progress) <= 1 + Len(combos_data)
        /\ (pc \in {"mc_trial", "mc_sample"}) =>
              progress[Len(progress)] = <<CombosFinished + 1, Len(combos_data)>>
        /\ (mc_result = Returned(TRUE, "done")) =>
              progress[Len(progress)][1] = Len(combos_data)

\* the second of two combinations is being simulated
C23_Witness ==
    /\ pc = "mc_trial"
    /\ combo_idx = 2
    /\ sim_idx >= 1
    /\ progress = <<<<0, 2>>, <<1, 2>>, <<2, 2>>>>

\* ---- polling of the stop predicate
StoppedReturn ==
    mc_result = Returned(FALSE, "stopped by user")

\* the file of the combination at which the run stopped, if it was opened
StoppedFileLen ==
    IF mc_out[combo_idx] = NoFile THEN 0 ELSE Len(mc_out[combo_idx][1])

\* C24 (as stated): the stop predicate is polled before each combination
\* and at every trial index that is a multiple of 1000, a trial is never
\* interrupted, nothing is simulated after a poll has returned true, and at
\* most 999 trials are simulated after the predicate first becomes true.
C24_AtMost999AfterStop ==
    /\ trials_after_stop <= 999
    /\ StoppedReturn => (stop_flag /\ StoppedFileLen % 1000 = 0)

\* C24 (amended): the same, with at most 1000 trials simulated after the
\* predicate first becomes true (it can become true just after a poll).
C24_AtMost1000AfterStop ==
    /\ trials_after_stop <= 1000
    /\ StoppedReturn => (stop_flag /\ StoppedFileLen % 1000 = 0)
    /\ (pc = "mc_sample" /\ sim_idx % 1000 = 0 /\ stop_flag)
          => trials_after_stop = 0
    /\ (pc = "mc_trial" /\ sim_idx = 0 /\ stop_flag) => trials_after_stop = 0

\* a stop requested just after the poll at trial 0 is honoured at trial 1000
C24_Witness ==
    /\ pc = "mc_returned"
    /\ StoppedReturn
    /\ trials_after_stop = 1000
    /\ Len(mc_out[combo_idx][1]) = 1000

\* ---- the window scan
SortedData ==
    CHOOSE sd \in [1..Len(data) -> {data[k] : k \in 1..Len(data)}] :
        /\ \A k \in 1..(Len(data) - 1) : sd[k] <= sd[k + 1]
        /\ \A v \in {data[k] : k \in 1..Len(data)} :
              Cardinality({k \in 1..Len(data) : sd[k] = v})
                  = Cardinality({k \in 1..Len(data) : data[k] = v})
WindowSize ==
    ((hdi_alpha.den - hdi_alpha.num) * Len(data)) \div hdi_alpha.den
WindowSpan(i) == SortedData[i + WindowSize - 1] - SortedData[i]
Windows == 1..(Len(data) - WindowSize + 1)

\* C25: with k = floor((1 - alpha) n) >= 1 the function returns the first and
\* the last element of the leftmost window of k consecutive sorted samples
\* whose span is minimal over the n - k + 1 windows; calculate_statistics
\* returns (0, 0, 0) for n = 0.
C25_LeftmostNarrowestWindow ==
    /\ (pc = "hdi" /\ WindowSize >= 1) =>
          \E i \in Windows :
              /\ hdi_result[1] = <<SortedData[i], SortedData[i + WindowSize - 1]>>
              /\ \A j \in Windows : WindowSpan(i) <= WindowSpan(j)
              /\ \A j \in Windows : j < i => WindowSpan(i) < WindowSpan(j)
    /\ (pc \in {"summary", "written"} /\ Len(data) = 0) =>
          statistics = [hdi_min |-> 0, median |-> RZero, hdi_max |-> 0]

\* unsorted samples and two windows of the same span: the first is returned
C25_Witness ==
    /\ pc = "hdi"
    /\ Len(data) = 3
    /\ WindowSize = 2
    /\ data # SortedData
    /\ WindowSpan(1) = WindowSpan(2)
    /\ WindowSpan(1) >= 1
    /\ hdi_result[1] = <<SortedData[1], SortedData[2]>>

\* ---- the median of the shortest interval
IndexOfValue(v) == CHOOSE k \in 1..Len(stats) : <<stats[k].value>> = v
MassFrom(i, k) == RSum(TableProps, i, k)
ReachesHalf(i, j, k) ==
    RLeq(Rat(MassFrom(i, j).num, 2 * MassFrom(i, j).den), MassFrom(i, k))

\* C26: the median returned is the smallest table value inside the chosen
\* interval at which the proportion accumulated from the interval's left end
\* first reaches half of the interval's proportion; so min <= median <= max.
C26_WeightedMedian ==
    (pc = "interval" /\ stats # <<>>) =>
        LET i == IndexOfValue(interval.min_val)
            j == IndexOfValue(interval.max_val)
            m == IndexOfValue(interval.median_val)
        IN  /\ i <= m /\ m <= j
            /\ ReachesHalf(i, j, m)
            /\ \A k \in i..(m - 1) : ~ReachesHalf(i, j, k)
            /\ interval.min_val[1] <= interval.median_val[1]
            /\ interval.median_val[1] <= interval.max_val[1]

\* an interval of three values whose median is neither an endpoint nor the
\* midpoint of the endpoints
C26_Witness ==
    /\ pc = "interval"
    /\ stats # <<>>
    /\ IndexOfValue(interval.max_val) - IndexOfValue(interval.min_val) >= 2
    /\ interval.min_val[1] < interval.median_val[1]
    /\ interval.median_val[1] < interval.max_val[1]
    /\ 2 * interval.median_val[1] # interval.min_val[1] + interval.max_val[1]

\* ---- ties between candidate intervals
Covers(a, b) == a <= b /\ RLeq(target_prob, RSum(TableProps, a, b))

\* C27: among the candidate intervals of minimal span the one with the
\* smallest left endpoint is returned: every interval that reaches the target
\* and starts left of the returned one is wider.
C27_TieFirstFound ==
    (pc = "interval" /\ stats # <<>>) =>
        LET i == IndexOfValue(interval.min_val)
            j == IndexOfValue(interval.max_val)
        IN  \A a \in 1..(i - 1) : \A b \in a..Len(stats) :
                Covers(a, b) => TableSpan(a, b) > TableSpan(i, j)

\* a candidate further right has the same span as the interval returned
C27_Witness ==
    /\ pc = "interval"
    /\ stats # <<>>
    /\ interval.min_val # interval.max_val
    /\ \E a, b \in 1..Len(stats) :
          /\ a > IndexOfValue(interval.min_val)
          /\ Covers(a, b)
          /\ TableSpan(a, b) = TableSpan(IndexOfValue(interval.min_val),
                                         IndexOfValue(interval.max_val))

C29_ReservoirHoldsDistinctPositions ==
    /\ [][(using_reservoir /\ max_points >= 1) =>
             (using_reservoir' /\ data_numeric' = <<>>)]_vars
    /\ [](using_reservoir /\ max_points >= 1 =>
             /\ Len(reservoir) = max_points
             /\ \A a \in 1..Len(reservoir) :
                    /\ reservoir[a] \in 1..total_count
                    /\ Flatten(row_iter)[reservoir[a]] = reservoir[a]
                    /\ \A b \in 1..Len(reservoir) :
                          a # b => reservoir[a] # reservoir[b])

\* C29 witness: in reservoir mode with cap >= 2, a scalar consumed after the
\* switch has replaced a value of the reservoir, and the stream goes on.
C29_Witness ==
    /\ pc = "collect_vals"
    /\ using_reservoir
    /\ max_points >= 2
    /\ total_count > max_points + 1
    /\ \E a \in 1..Len(reservoir) : reservoir[a] = total_count

\* ---- idle slots
\* the populations with those of the slots of weight <= 0 taken away
WithoutIdleSlots(combo, bins) ==
    [k \in 1..Len(bins) |->
        IF k <= Len(combo) /\ combo[k] <= 0 THEN <<>> ELSE bins[k]]

\* C30: a slot whose weight is 0 or negative contributes 0 to every trial
\* whatever its population holds: every sample written is a total of the
\* slots of positive weight alone, so a channel of four zero weights never
\* changes a total.
C30_IdleSlotsContributeNothing ==
    (pc \in {"mc_combo", "mc_trial", "mc_sample"}) =>
        \A i \in 1..Len(mc_out) :
            mc_out[i] # NoFile =>
                \A t \in 1..Len(mc_out[i][1]) :
                    mc_out[i][1][t] \in
                        TrialTotals(combos_data[i],
                                    WithoutIdleSlots(combos_data[i],
                                                     bin_data_list),
                                    SlotsUsed(combos_data[i]))

\* C30 witness: a trial was written for a row with a negative weight, a
\* positive weight and a channel of four zero weights, over populations
\* holding no zero.
C30_Witness ==
    /\ pc = "mc_trial"
    /\ combo_idx >= 1
    /\ combo_idx <= Len(mc_out)
    /\ mc_out[combo_idx] # NoFile
    /\ Len(mc_out[combo_idx][1]) >= 1
    /\ LET combo == combos_data[combo_idx]
       IN  /\ Len(combo) >= SLOT_COUNT
           /\ \E k \in 1..SLOT_COUNT : combo[k] < 0
           /\ \E k \in 1..SLOT_COUNT : combo[k] > 0
           /\ \A k \in 5..8 : combo[k] = 0
    /\ \A k \in 1..SLOT_COUNT :
          /\ bin_data_list[k] # <<>>
          /\ \A j \in 1..Len(bin_data_list[k]) : bin_data_list[k][j] # 0

====
